---- MODULE Spec2Model ----
(***************************************************************************)
(* A model of the stock_analysis ingestion / storage / comparison engine:  *)
(*   database/db_manager.py      DatabaseManager (SQLite store)            *)
(*   data_processor/excel_parser.py  ExcelParser (normalisation)           *)
(*   utils/thread_worker.py      BatchImportWorker (import orchestrator)   *)
(*                                                                         *)
(* Conventions.                                                            *)
(*  - A text value (Python str / SQLite TEXT) is a tuple of one-character  *)
(*    strings.  Non-ASCII characters are written with ASCII stand-ins:     *)
(*    "W" is U+4E07 (wan, ten-thousand), "Y" is U+4EBF (yi, hundred        *)
(*    million), "~" is U+3001 (the full-width enumeration comma), and "J", *)
(*    "R", "D", "C" are U+91D1, U+878D, U+5730, U+4EA7 (the characters of  *)
(*    the sector names jin-rong and di-chan).                              *)
(*  - None / NaN / SQL NULL is NULL == <<>>; a present value v is          *)
(*    Some(v) == <<v>>.                                                    *)
(*  - A float is an exact decimal held as a whole number of tenths         *)
(*    (3000.0 is 30000); binary rounding is not modelled.                  *)
(*  - Columns of stock_daily that the code treats exactly like             *)
(*    main_net_amount (the other REAL columns) are not repeated.           *)
(***************************************************************************)
EXTENDS Integers, Sequences, FiniteSets, TLC

VARIABLES
    store,      \* table stock_daily: a set of rows
    history,    \* table import_history: a sequence of entries (append order)
    last,       \* the most recent call on the DatabaseManager and what it returned
    worker,     \* the BatchImportWorker thread (file list, position, counters, signals)
    dialogs     \* the DataImportDialog objects the main window has created, each
                \* with its buttons and its own BatchImportWorker

vars == <<store, history, last, worker, dialogs>>

-----------------------------------------------------------------------------
(* Optional values                                                          *)

NULL == <<>>

Some(v) == <<v>>

IsNull(x) == x = NULL

Val(x) == x[1]

\* A Python object sqlite3 cannot bind as a statement parameter.
Unbindable == <<"unbindable", "object">>

-----------------------------------------------------------------------------
(* Text                                                                     *)

Digits == {"0", "1", "2", "3", "4", "5", "6", "7", "8", "9"}

\* Unicode code point of a character (the order SQLite's BINARY collation and
\* Python's str comparison use).
CodePoint(c) ==
    CASE c = " " -> 32
      [] c = "%" -> 37
      [] c = "+" -> 43
      [] c = "," -> 44
      [] c = "-" -> 45
      [] c = "." -> 46
      [] c = "/" -> 47
      [] c \in Digits -> 48 + (CHOOSE n \in 0..9 :
                                 <<"0","1","2","3","4","5","6","7","8","9">>[n + 1] = c)
      [] c = "\\" -> 92
      [] c = "_" -> 95
      [] c = "a" -> 97
      [] c = "b" -> 98
      [] c = "d" -> 100
      [] c = "l" -> 108
      [] c = "n" -> 110
      [] c = "s" -> 115
      [] c = "x" -> 120
      [] c = "~" -> 12289
      [] c = "W" -> 19975
      [] c = "C" -> 20135
      [] c = "Y" -> 20159
      [] c = "D" -> 22320
      [] c = "R" -> 34701
      [] c = "J" -> 37329

Min(a, b) == IF a <= b THEN a ELSE b

\* a < b for two texts: memcmp order on the common prefix, then the shorter first.
TextLess(a, b) ==
    \/ \E i \in 1..Min(Len(a), Len(b)) :
          /\ \A j \in 1..(i - 1) : a[j] = b[j]
          /\ CodePoint(a[i]) < CodePoint(b[i])
    \/ /\ Len(a) < Len(b)
       /\ \A j \in 1..Len(a) : a[j] = b[j]

TextLeq(a, b) == a = b \/ TextLess(a, b)

\* needle occurs in hay (Python `in`, SQL LIKE '%needle%' on these alphabets).
Contains(hay, needle) ==
    \E i \in 0..(Len(hay) - Len(needle)) :
        \A j \in 1..Len(needle) : hay[i + j] = needle[j]

-----------------------------------------------------------------------------
(* Table stock_daily                                                        *)

\* Columns bound by the INSERT of insert_batch, in statement order.
TextColumns == {"stock_code", "stock_name", "sector"}

RealColumns == {"main_net_amount", "auction_today_volume",
                "auction_yesterday_volume", "turnover_rate"}

DataColumns == TextColumns \cup RealColumns

\* pandas row.get(col): the cell, or None when the frame has no such column.
Get(row, col) == IF col \in DOMAIN row THEN row[col] ELSE NULL

\* Mutant: a trade_date carried by the record is bound in place of the
\* argument.
BoundRowCarried(row, trade_date) ==
    [c \in DataColumns \cup {"trade_date"} |->
        IF c = "trade_date" /\ "trade_date" \notin DOMAIN row THEN trade_date
        ELSE Get(row, c)]

\* The parameter tuple of the INSERT, as a stock_daily row.
BoundRow(row, trade_date) ==
    [c \in DataColumns \cup {"trade_date"} |->
        IF c = "trade_date" THEN trade_date ELSE Get(row, c)]

\* cursor.execute raises: a parameter cannot be bound, or a NOT NULL column
\* (trade_date, stock_code) would receive NULL.
ExecuteFails(row, trade_date) ==
    \/ \E c \in DataColumns : Get(row, c) = Unbindable
    \/ IsNull(trade_date)
    \/ IsNull(Get(row, "stock_code"))

\* Mutant: an upsert that keeps the stored value of every column the new row
\* leaves NULL (ON CONFLICT DO UPDATE SET c = COALESCE(excluded.c, c)).
InsertOrMerge(st, new) ==
    LET old == {r \in st : r.trade_date = new.trade_date /\ r.stock_code = new.stock_code}
    IN  IF old = {} THEN st \cup {new}
        ELSE (st \ old) \cup
             {[c \in DOMAIN new |-> IF IsNull(new[c]) THEN r[c] ELSE new[c]] : r \in old}

\* INSERT OR REPLACE under UNIQUE(trade_date, stock_code): the rows that
\* collide on the key are deleted, then the new row is inserted.
InsertOrReplace(st, new) ==
    {r \in st : ~(r.trade_date = new.trade_date /\ r.stock_code = new.stock_code)}
        \cup {new}

\* One iteration of the loop of insert_batch: <<store, inserted, skipped>>.
UpsertOne(acc, row, trade_date) ==
    IF ExecuteFails(row, trade_date)
    THEN <<acc[1], acc[2], acc[3] + 1>>
    ELSE <<InsertOrReplace(acc[1], BoundRow(row, trade_date)), acc[2] + 1, acc[3]>>

\* Mutant: one try around the whole loop, so that the first failing record
\* ends the batch.
RECURSIVE UpsertLoopAborting(_, _, _)
UpsertLoopAborting(acc, data, trade_date) ==
    IF data = <<>> THEN acc
    ELSE IF ExecuteFails(Head(data), trade_date)
         THEN <<acc[1], acc[2], acc[3] + 1>>
         ELSE UpsertLoopAborting(UpsertOne(acc, Head(data), trade_date),
                                 Tail(data), trade_date)

RECURSIVE UpsertLoop(_, _, _)
UpsertLoop(acc, data, trade_date) ==
    IF data = <<>> THEN acc
    ELSE UpsertLoop(UpsertOne(acc, Head(data), trade_date), Tail(data), trade_date)

\* insert_batch(data, trade_date): <<store after commit, inserted, skipped>>.
insert_batch(st, data, trade_date) == UpsertLoop(<<st, 0, 0>>, data, trade_date)

\* Mutant: a DELETE that removes one matching row only.
delete_one_by_date(st, trade_date) ==
    LET hit == {r \in st : r.trade_date = trade_date}
    IN  IF hit = {} THEN <<st, 0>> ELSE <<st \ {CHOOSE r \in hit : TRUE}, 1>>

\* delete_by_date(trade_date): <<store after commit, cursor.rowcount>>.
delete_by_date(st, trade_date) ==
    LET hit == {r \in st : r.trade_date = trade_date}
    IN  <<st \ hit, Cardinality(hit)>>

-----------------------------------------------------------------------------
(* Queries                                                                  *)

\* Mutant: ORDER BY stock_code DESC.
RECURSIVE OrderByStockCodeDesc(_)
OrderByStockCodeDesc(S) ==
    IF S = {} THEN <<>>
    ELSE LET m == CHOOSE r \in S :
                    \A q \in S : TextLeq(Val(q.stock_code), Val(r.stock_code))
         IN  <<m>> \o OrderByStockCodeDesc(S \ {m})

\* The rows of S as a sequence, ORDER BY stock_code ASC.
RECURSIVE OrderByStockCode(_)
OrderByStockCode(S) ==
    IF S = {} THEN <<>>
    ELSE LET m == CHOOSE r \in S :
                    \A q \in S : TextLeq(Val(r.stock_code), Val(q.stock_code))
         IN  <<m>> \o OrderByStockCode(S \ {m})

\* A set of texts as a sequence, ORDER BY ... DESC.
RECURSIVE OrderDesc(_)
OrderDesc(S) ==
    IF S = {} THEN <<>>
    ELSE LET m == CHOOSE t \in S : \A u \in S : TextLeq(u, t)
         IN  <<m>> \o OrderDesc(S \ {m})

\* Python truthiness of an optional str argument: None and '' are false.
TruthyText(arg) == ~IsNull(arg) /\ Len(Val(arg)) > 0

\* Python truthiness of an optional int argument: None and 0 are false.
TruthyInt(arg) == ~IsNull(arg) /\ Val(arg) # 0

\* " LIMIT {limit}" appended when limit is truthy.
Limit(seq, limit) ==
    IF TruthyInt(limit) /\ Val(limit) < Len(seq) THEN SubSeq(seq, 1, Val(limit)) ELSE seq

\* query_by_date(trade_date, stock_code, sector, limit)
query_by_date(st, trade_date, stock_code, sector, limit) ==
    LET hit == {r \in st :
                  /\ r.trade_date = trade_date
                  /\ TruthyText(stock_code) => r.stock_code = stock_code
                  /\ TruthyText(sector) =>
                        /\ ~IsNull(r.sector)
                        /\ Contains(Val(r.sector), Val(sector))}
    IN  Limit(OrderByStockCode(hit), limit)

\* Mutant: the scan of _get_previous_trade_date ordered ASC, so that LIMIT 1
\* keeps the earliest date below current_date.
get_previous_trade_date_asc(st, current_date) ==
    LET below == {Val(r.trade_date) : r \in
                     {q \in st : TextLess(Val(q.trade_date), Val(current_date))}}
    IN  IF below = {} THEN NULL
        ELSE Some(CHOOSE t \in below : \A u \in below : TextLeq(t, u))

\* SELECT DISTINCT trade_date FROM stock_daily ORDER BY trade_date DESC
get_all_dates(st) == OrderDesc({Val(r.trade_date) : r \in st})

\* _get_previous_trade_date(current_date): first row of the descending scan
\* of the distinct dates below current_date, or None.
get_previous_trade_date(st, current_date) ==
    LET scan == OrderDesc({Val(r.trade_date) : r \in
                              {q \in st : TextLess(Val(q.trade_date), Val(current_date))}})
    IN  IF scan = <<>> THEN NULL ELSE Some(scan[1])

\* Mutant: the quotient without the test for a zero divisor.
RatioUnguarded(today, prev) ==
    IF ~IsNull(today) /\ ~IsNull(prev)
    THEN Some([num |-> Val(today), den |-> Val(prev)])
    ELSE NULL

\* today / prev when both are present and prev is not zero, else None.  The
\* quotient is kept as the pair it is computed from.
Ratio(today, prev) ==
    IF ~IsNull(today) /\ ~IsNull(prev) /\ Val(prev) # 0
    THEN Some([num |-> Val(today), den |-> Val(prev)])
    ELSE NULL

\* today_df with both comparison columns set to None.
EmptyRatios(today_df) ==
    [i \in 1..Len(today_df) |->
        today_df[i] @@ [main_net_prev_ratio |-> NULL, volume_prev_ratio |-> NULL]]

\* The loop over today_df against prev_dict (prev_df indexed by stock_code).
AttachRatios(today_df, prev_df) ==
    LET prev_codes == {prev_df[k].stock_code : k \in 1..Len(prev_df)}
        prev_dict(code) == prev_df[CHOOSE k \in 1..Len(prev_df) :
                                      prev_df[k].stock_code = code]
    IN  [i \in 1..Len(today_df) |->
            LET row == today_df[i]
                code == row.stock_code
            IN  row @@
                [main_net_prev_ratio |->
                    IF code \in prev_codes
                    THEN Ratio(row.main_net_amount, prev_dict(code).main_net_amount)
                    ELSE NULL,
                 volume_prev_ratio |->
                    IF code \in prev_codes
                    THEN Ratio(row.auction_today_volume,
                               prev_dict(code).auction_today_volume)
                    ELSE NULL]]

\* Mutant: no row is returned when the previous partition is empty.
comparison_result_dropping(today_df, prev_date, prev_df) ==
    IF today_df = <<>> THEN today_df
    ELSE IF IsNull(prev_date) THEN EmptyRatios(today_df)
    ELSE IF prev_df = <<>> THEN <<>>
    ELSE AttachRatios(today_df, prev_df)

\* The part of query_by_date_with_comparison after its three reads.
comparison_result(today_df, prev_date, prev_df) ==
    IF today_df = <<>> THEN today_df
    ELSE IF IsNull(prev_date) THEN EmptyRatios(today_df)
    ELSE IF prev_df = <<>> THEN EmptyRatios(today_df)
    ELSE AttachRatios(today_df, prev_df)

\* Mutant: the previous partition is read with the filters of the call.
query_by_date_with_comparison_filtering(st, trade_date, stock_code, sector, limit) ==
    LET today_df  == query_by_date(st, trade_date, stock_code, sector, limit)
        prev_date == get_previous_trade_date(st, trade_date)
        prev_df   == IF IsNull(prev_date) THEN <<>>
                     ELSE query_by_date(st, prev_date, stock_code, sector, limit)
    IN  comparison_result(today_df, prev_date, prev_df)

\* query_by_date_with_comparison(trade_date, stock_code, sector, limit), run
\* with no write between its reads.
query_by_date_with_comparison(st, trade_date, stock_code, sector, limit) ==
    LET today_df  == query_by_date(st, trade_date, stock_code, sector, limit)
        prev_date == get_previous_trade_date(st, trade_date)
        prev_df   == IF IsNull(prev_date) THEN <<>>
                     ELSE query_by_date(st, prev_date, NULL, NULL, NULL)
    IN  comparison_result(today_df, prev_date, prev_df)

-----------------------------------------------------------------------------
(* ExcelParser: text and number conversions                                 *)

\* A raw cell of the frame pd.read_excel returns.
NaN == [t |-> "nan"]

Num(tenths) == [t |-> "num", n |-> tenths]

Str(text) == [t |-> "str", v |-> text]

\* str.replace(ch, '')
Remove(text, ch) == SelectSeq(text, LAMBDA c : c # ch)

\* str.strip() on the blank character.
RECURSIVE LStrip(_)
LStrip(text) ==
    IF text # <<>> /\ Head(text) = " " THEN LStrip(Tail(text)) ELSE text

RECURSIVE RStrip(_)
RStrip(text) ==
    IF text # <<>> /\ text[Len(text)] = " "
    THEN RStrip(SubSeq(text, 1, Len(text) - 1)) ELSE text

Strip(text) == RStrip(LStrip(text))

\* str.isdigit() on these alphabets.
IsDigit(text) == text # <<>> /\ \A i \in 1..Len(text) : text[i] \in Digits

DigitValue(c) == CodePoint(c) - 48

DigitChar(n) == <<"0", "1", "2", "3", "4", "5", "6", "7", "8", "9">>[n + 1]

\* The number written by a text of digits.
RECURSIVE NatOf(_)
NatOf(digits) ==
    IF digits = <<>> THEN 0
    ELSE 10 * NatOf(SubSeq(digits, 1, Len(digits) - 1)) + DigitValue(digits[Len(digits)])

\* str(n) for a natural number.
RECURSIVE TextOfNat(_)
TextOfNat(n) ==
    IF n < 10 THEN <<DigitChar(n)>> ELSE TextOfNat(n \div 10) \o <<DigitChar(n % 10)>>

\* str(x) of a float held in tenths: "1.0", "-2.5".
TextOfFloat(v) ==
    IF v < 0 THEN <<"-">> \o TextOfNat((-v) \div 10) \o <<".", DigitChar((-v) % 10)>>
    ELSE TextOfNat(v \div 10) \o <<".", DigitChar(v % 10)>>

\* str(x) of a raw cell.
StrOf(cell) ==
    CASE cell.t = "nan" -> <<"n", "a", "n">>
      [] cell.t = "num" -> TextOfFloat(cell.n)
      [] cell.t = "str" -> cell.v

\* str.zfill(width) of an unsigned text.
RECURSIVE ZFill(_, _)
ZFill(text, width) == IF Len(text) >= width THEN text ELSE ZFill(<<"0">> \o text, width)

\* The position of the first "." of a text, or 0.
DotAt(text) ==
    IF \E i \in 1..Len(text) : text[i] = "."
    THEN CHOOSE i \in 1..Len(text) : text[i] = "." /\ \A j \in 1..(i - 1) : text[j] # "."
    ELSE 0

\* float(text): [ok |-> FALSE] is ValueError; val is NULL for float('nan').
\* Decimal numerals with an optional sign and at most one fractional digit
\* are read exactly; exponents and longer fractions are not drawn as inputs.
\* The numeral is read in stages: the digits, the parts around the point,
\* the sign.
FloatOfDigits(whole, frac, neg) ==
    IF /\ (whole # <<>> \/ frac # <<>>)
       /\ \A i \in 1..Len(whole) : whole[i] \in Digits
       /\ \A i \in 1..Len(frac) : frac[i] \in Digits
       /\ \A i \in 2..Len(frac) : frac[i] = "0"
    THEN [ok |-> TRUE,
          val |-> Some((IF neg THEN -1 ELSE 1)
                       * (10 * NatOf(whole) + (IF frac = <<>> THEN 0 ELSE DigitValue(frac[1]))))]
    ELSE [ok |-> FALSE]

FloatOfParts(body, dot, neg) ==
    IF dot = 0 THEN FloatOfDigits(body, <<>>, neg)
    ELSE FloatOfDigits(SubSeq(body, 1, dot - 1), SubSeq(body, dot + 1, Len(body)), neg)

FloatOfUnsigned(body, neg) ==
    IF body = <<"n", "a", "n">> THEN [ok |-> TRUE, val |-> NULL]
    ELSE FloatOfParts(body, DotAt(body), neg)

FloatOfStripped(t) ==
    IF t # <<>> /\ Head(t) \in {"-", "+"} THEN FloatOfUnsigned(Tail(t), Head(t) = "-")
    ELSE FloatOfUnsigned(t, FALSE)

ParseFloat(text) == FloatOfStripped(Strip(text))

\* The float a parsed numeral gives, times scale, or None.
ScaledOrNone(f, scale) ==
    IF f.ok /\ ~IsNull(f.val) THEN Some(Val(f.val) * scale) ELSE NULL

\* float(text) * scale, or None when float raises ValueError (the except
\* clause of _parse_numeric).
FloatOrNone(text, scale) == ScaledOrNone(ParseFloat(text), scale)

\* Mutant: an empty or dash remainder reads as zero.
ParsePlainRestZero(s3) ==
    IF s3 = <<>> \/ s3 = <<"-">> THEN Some(0) ELSE FloatOrNone(s3, 1)

\* _parse_numeric from "str_value.replace(',', '').replace('%', '')" on.
ParsePlainRest(s3) ==
    IF s3 = <<>> \/ s3 = <<"-">> THEN NULL ELSE FloatOrNone(s3, 1)

ParsePlain(s2) == ParsePlainRest(Strip(Remove(Remove(s2, ","), "%")))

\* _parse_numeric from "if W in str_value" on.
ParseWanRest(wan) ==
    IF wan # <<>> /\ wan # <<"-">> THEN FloatOrNone(wan, 1) ELSE ParsePlain(wan)

ParseWan(s1) ==
    IF Contains(s1, <<"W">>) THEN ParseWanRest(Strip(Remove(Remove(s1, "W"), ",")))
    ELSE ParsePlain(s1)

\* _parse_numeric from "if Y in str_value" on.
ParseYiRest(yi) ==
    IF yi # <<>> /\ yi # <<"-">> THEN FloatOrNone(yi, 10000) ELSE ParseWan(yi)

ParseYi(s0) ==
    IF Contains(s0, <<"Y">>) THEN ParseYiRest(Strip(Remove(Remove(s0, "Y"), ",")))
    ELSE ParseWan(s0)

\* _parse_numeric(value)
parse_numeric(value) ==
    IF value.t = "nan" \/ (value.t = "str" /\ value.v = <<>>) THEN NULL
    ELSE IF value.t = "num" THEN Some(value.n)
    ELSE ParseYi(Strip(value.v))

-----------------------------------------------------------------------------
(* ExcelParser: date resolution, column mapping, cleaning                   *)

\* COLUMN_MAPPING, for the columns of stock_daily kept here.  The labels are
\* romanised: jiaoyi_riqi is the trade-date label, gupiao_daima the stock
\* code, gupiao_mingcheng the stock name, bankuai the sector, zhuli_jinge
\* the main net amount, chengjiaoe and jinri_chengjiaoe the volume of the
\* day, zuori_chengjiaoe the volume of the day before, huanshoulv the
\* turnover rate.
COLUMN_MAPPING ==
    [l \in {"jiaoyi_riqi", "gupiao_daima", "gupiao_mingcheng", "bankuai", "zhuli_jinge",
            "chengjiaoe", "huanshoulv", "jinri_chengjiaoe", "zuori_chengjiaoe"} |->
        CASE l = "jiaoyi_riqi" -> "trade_date"
          [] l = "gupiao_daima" -> "stock_code"
          [] l = "gupiao_mingcheng" -> "stock_name"
          [] l = "bankuai" -> "sector"
          [] l = "zhuli_jinge" -> "main_net_amount"
          [] l = "chengjiaoe" -> "auction_today_volume"
          [] l = "huanshoulv" -> "turnover_rate"
          [] l = "jinri_chengjiaoe" -> "auction_today_volume"
          [] l = "zuori_chengjiaoe" -> "auction_yesterday_volume"]

EndsWith(text, suffix) ==
    /\ Len(text) >= Len(suffix)
    /\ SubSeq(text, Len(text) - Len(suffix) + 1, Len(text)) = suffix

\* os.path.basename: what follows the last path separator.
Basename(path) ==
    LET seps == {i \in 1..Len(path) : path[i] \in {"/", "\\"}}
    IN  IF seps = {} THEN path
        ELSE SubSeq(path, (CHOOSE i \in seps : \A j \in seps : j <= i) + 1, Len(path))

\* re.search of \d{4}<sep>\d{2}<sep>\d{2} matches at position i.
DateAt(text, i, seps) ==
    /\ i + 9 <= Len(text)
    /\ \A k \in {0, 1, 2, 3, 5, 6, 8, 9} : text[i + k] \in Digits
    /\ text[i + 4] \in seps
    /\ text[i + 7] \in seps

\* The leftmost match rendered as YYYY-MM-DD, or None.
FirstDate(text, seps) ==
    LET at == {i \in 1..Len(text) : DateAt(text, i, seps)}
    IN  IF at = {} THEN NULL
        ELSE LET i == CHOOSE k \in at : \A j \in at : k <= j
             IN  Some(SubSeq(text, i, i + 3) \o <<"-">> \o SubSeq(text, i + 5, i + 6)
                      \o <<"-">> \o SubSeq(text, i + 8, i + 9))

\* Mutant: one search for both shapes, the leftmost match returned.
extract_date_from_filename_leftmost(filename) ==
    FirstDate(filename, {"-", "/", "\\"})

\* extract_date_from_filename(filename)
extract_date_from_filename(filename) ==
    IF ~IsNull(FirstDate(filename, {"-"})) THEN FirstDate(filename, {"-"})
    ELSE FirstDate(filename, {"/", "\\"})

\* str.split()[0]: the first blank-separated token; <<>> when there is none
\* (IndexError).
FirstToken(text) ==
    LET t == LStrip(text)
        blanks == {i \in 1..Len(t) : t[i] = " "}
    IN  IF blanks = {} THEN t
        ELSE SubSeq(t, 1, (CHOOSE i \in blanks : \A j \in blanks : i <= j) - 1)

\* The columns of normalized_df, and for each the Excel column it is copied
\* from: the first one in the frame's column order that maps to it.
MappedColumns(df) ==
    {COLUMN_MAPPING[df.columns[i]] :
        i \in {k \in 1..Len(df.columns) : df.columns[k] \in DOMAIN COLUMN_MAPPING}}

\* Mutant: a later Excel column that maps to db_col overwrites the earlier.
SourceColumnLast(df, db_col) ==
    df.columns[CHOOSE i \in 1..Len(df.columns) :
        /\ df.columns[i] \in DOMAIN COLUMN_MAPPING
        /\ COLUMN_MAPPING[df.columns[i]] = db_col
        /\ \A j \in (i + 1)..Len(df.columns) :
              df.columns[j] \in DOMAIN COLUMN_MAPPING =>
                  COLUMN_MAPPING[df.columns[j]] # db_col]

SourceColumn(df, db_col) ==
    df.columns[CHOOSE i \in 1..Len(df.columns) :
        /\ df.columns[i] \in DOMAIN COLUMN_MAPPING
        /\ COLUMN_MAPPING[df.columns[i]] = db_col
        /\ \A j \in 1..(i - 1) :
              df.columns[j] \in DOMAIN COLUMN_MAPPING =>
                  COLUMN_MAPPING[df.columns[j]] # db_col]

\* The lambda _clean_data applies to stock_code raises: int() of a text that
\* is digits and dots.
StockCodeRaises(x) ==
    /\ x.t = "str"
    /\ IsDigit(Remove(x.v, "."))
    /\ ~IsDigit(x.v)

\* Mutant: the digits are not left-padded to six characters.
CleanStockCodeUnpadded(x) ==
    IF x.t # "nan" /\ IsDigit(Remove(StrOf(x), "."))
    THEN TextOfNat(IF x.t = "num" THEN x.n \div 10 ELSE NatOf(x.v))
    ELSE StrOf(x)

\* The lambda _clean_data applies to stock_code.
CleanStockCode(x) ==
    IF x.t # "nan" /\ IsDigit(Remove(StrOf(x), "."))
    THEN ZFill(TextOfNat(IF x.t = "num" THEN x.n \div 10 ELSE NatOf(x.v)), 6)
    ELSE StrOf(x)

\* A cell _clean_data leaves alone, as sqlite3 stores it in a TEXT column.
PlainCell(x) ==
    CASE x.t = "nan" -> NULL
      [] x.t = "num" -> Some(TextOfFloat(x.n))
      [] x.t = "str" -> Some(x.v)

\* One cell of the frame _clean_data returns.
CleanCell(col, x) ==
    IF col = "stock_code" THEN Some(CleanStockCode(x))
    ELSE IF col \in RealColumns THEN parse_numeric(x)
    ELSE PlainCell(x)

\* _normalize_data raises (the exception comes from _clean_data).
normalize_data_raises(df) ==
    /\ "stock_code" \in MappedColumns(df)
    /\ \E i \in 1..Len(df.rows) :
          StockCodeRaises(df.rows[i][SourceColumn(df, "stock_code")])

\* _normalize_data(df, column_mapping): the rows of the cleaned frame.  A
\* frame with no mapped column has no row.
normalize_data(df) ==
    IF MappedColumns(df) = {} THEN <<>>
    ELSE [i \in 1..Len(df.rows) |->
            [c \in MappedColumns(df) |-> CleanCell(c, df.rows[i][SourceColumn(df, c)])]]

\* parse_excel(file_path, column_mapping).  error names the exception; when
\* there is none, df and trade_date are the returned pair.
parse_excel(file) ==
    LET filename == Basename(file.file_path)
        by_name  == extract_date_from_filename(filename)
        has_col  == \E i \in 1..Len(file.columns) : file.columns[i] = "jiaoyi_riqi"
        first    == file.rows[1]["jiaoyi_riqi"]
        trade_date ==
            IF ~IsNull(by_name) THEN by_name
            ELSE IF has_col /\ first.t # "nan" THEN Some(FirstToken(StrOf(first)))
            ELSE NULL
        error ==
            IF ~EndsWith(file.file_path, <<".", "x", "l", "s", "x">>)
               /\ ~EndsWith(file.file_path, <<".", "x", "l", "s">>)
            THEN "ValueError: unsupported format"
            ELSE IF ~file.readable THEN "read_excel failed"
            ELSE IF IsNull(by_name) /\ has_col /\ file.rows = <<>>
            THEN "IndexError: iloc"
            ELSE IF IsNull(by_name) /\ has_col /\ first.t # "nan"
                    /\ Strip(StrOf(first)) = <<>>
            THEN "IndexError: split"
            ELSE IF normalize_data_raises(file) THEN "ValueError: int()"
            ELSE "none"
    IN  IF error # "none" THEN [error |-> error]
        ELSE [error |-> "none", df |-> normalize_data(file), trade_date |-> trade_date]

-----------------------------------------------------------------------------
(* DatabaseManager: sectors and statistics                                  *)

\* str.split(sep) for a one-character separator.
RECURSIVE Split(_, _)
Split(text, sep) ==
    LET at == {i \in 1..Len(text) : text[i] = sep}
    IN  IF at = {} THEN <<text>>
        ELSE LET i == CHOOSE k \in at : \A j \in at : k <= j
             IN  <<SubSeq(text, 1, i - 1)>> \o Split(SubSeq(text, i + 1, Len(text)), sep)

\* sorted(list(S)) for a set of texts.
RECURSIVE Sorted(_)
Sorted(S) ==
    IF S = {} THEN <<>>
    ELSE LET m == CHOOSE t \in S : \A u \in S : TextLeq(t, u)
         IN  <<m>> \o Sorted(S \ {m})

\* SELECT DISTINCT sector FROM stock_daily WHERE sector IS NOT NULL, less the
\* rows "if row[0]" drops.
DistinctSectors(st) ==
    {Val(r.sector) : r \in {q \in st : ~IsNull(q.sector) /\ Val(q.sector) # <<>>}}

\* Mutant: the stored sector texts are returned whole.
get_all_sectors_unsplit(st) == Sorted(DistinctSectors(st))

\* get_all_sectors()
get_all_sectors(st) ==
    Sorted(UNION {{Strip(Split(t, "~")[k]) : k \in 1..Len(Split(t, "~"))} :
                    t \in DistinctSectors(st)})

\* round(x, 2) of the quotient sum / count of values held in tenths, in
\* hundredths.  A quotient that falls halfway between two hundredths goes to
\* the even one.
Round2(sum, count) ==
    LET q == (sum * 10) \div count
        r == (sum * 10) % count
    IN  IF 2 * r > count THEN q + 1
        ELSE IF 2 * r < count THEN q
        ELSE IF q % 2 = 0 THEN q ELSE q + 1

RECURSIVE SumOf(_, _)
SumOf(rows, col) ==
    IF rows = {} THEN 0
    ELSE LET r == CHOOSE x \in rows : TRUE
         IN  Val(r[col]) + SumOf(rows \ {r}, col)

\* Mutant: AVG(COALESCE(turnover_rate, 0)), every row of the date counted.
get_statistics_coalescing(st, trade_date) ==
    LET rows == {r \in st : r.trade_date = trade_date}
        rated == {r \in rows : ~IsNull(r.turnover_rate)}
    IN  [total_count |-> Cardinality(rows),
         positive_main_count |->
            Cardinality({r \in rows : ~IsNull(r.main_net_amount)
                                        /\ Val(r.main_net_amount) > 0}),
         positive_volume_count |->
            Cardinality({r \in rows : /\ ~IsNull(r.auction_today_volume)
                                        /\ ~IsNull(r.auction_yesterday_volume)
                                        /\ Val(r.auction_today_volume)
                                              > Val(r.auction_yesterday_volume)}),
         avg_turnover |->
            IF rows = {} THEN 0 ELSE Round2(SumOf(rated, "turnover_rate"), Cardinality(rows))]

\* get_statistics(trade_date): the three COUNT(*) and the AVG, a comparison
\* with NULL selecting no row; avg_turnover in hundredths, 0 when AVG is NULL
\* or 0.0.
get_statistics(st, trade_date) ==
    LET rows == {r \in st : r.trade_date = trade_date}
        rated == {r \in rows : ~IsNull(r.turnover_rate)}
    IN  [total_count |-> Cardinality(rows),
         positive_main_count |->
            Cardinality({r \in rows : ~IsNull(r.main_net_amount)
                                        /\ Val(r.main_net_amount) > 0}),
         positive_volume_count |->
            Cardinality({r \in rows : /\ ~IsNull(r.auction_today_volume)
                                        /\ ~IsNull(r.auction_yesterday_volume)
                                        /\ Val(r.auction_today_volume)
                                              > Val(r.auction_yesterday_volume)}),
         avg_turnover |->
            IF rated = {} THEN 0 ELSE Round2(SumOf(rated, "turnover_rate"), Cardinality(rated))]

-----------------------------------------------------------------------------
(* Bounds and the inputs drawn within them                                  *)

MaxDates == 3

MaxCodes == 2

MaxBatch == 2

MaxRows == 3

DateList ==
    << <<"2","0","2","5","-","0","9","-","0","1">>,
       <<"2","0","2","5","-","0","9","-","0","2">>,
       <<"2","0","2","5","-","0","9","-","0","5">>,
       <<"2","0","2","5","-","1","0","-","0","8">>,
       <<"2","0","2","5","-","1","0","-","0","9">> >>

CodeList ==
    << <<"0","0","0","0","0","1">>,
       <<"6","0","0","0","0","0">>,
       <<"0","0","0","0","0","2">>,
       <<"3","0","0","0","0","1">> >>

Dates == {DateList[i] : i \in 1..Min(MaxDates, Len(DateList))}

Codes == {CodeList[i] : i \in 1..Min(MaxCodes, Len(CodeList))}

JinRong == <<"J", "R">>

DiChan == <<"D", "C">>

JinRongDiChan == <<"J", "R", "~", " ", "D", "C">>

\* DataFrame rows a caller may hand to insert_batch for one stock code; the
\* third frame has no sector column and has a trade_date column.
SampleRows(code) ==
    { [stock_code |-> Some(code), stock_name |-> Some(<<"a">>), sector |-> Some(JinRong),
       main_net_amount |-> Some(20), auction_today_volume |-> Some(10)],
      [stock_code |-> Some(code), stock_name |-> NULL, sector |-> Some(JinRongDiChan),
       main_net_amount |-> Some(0), auction_today_volume |-> NULL],
      [stock_code |-> Some(code), stock_name |-> Some(<<"b">>),
       trade_date |-> Some(DateList[2]),
       main_net_amount |-> NULL, auction_today_volume |-> Some(0)] }

\* Rows whose INSERT raises: no stock_code, and a cell sqlite3 cannot bind.
FailingRows ==
    { [stock_name |-> Some(<<"a">>), main_net_amount |-> Some(10)],
      [stock_code |-> Some(CodeList[1]), sector |-> Unbindable] }

InputRows == UNION {SampleRows(c) : c \in Codes} \cup FailingRows

Batches == UNION {[1..n -> InputRows] : n \in 0..MaxBatch}

CodeFilters == {NULL, Some(CodeList[2])}

SectorFilters == {NULL, Some(DiChan)}

LimitFilters == {NULL, Some(0), Some(1)}

\* The Excel files on disk: path, whether read_excel can read it, the header
\* row and the data rows (label -> cell).  beizhu is a label COLUMN_MAPPING
\* does not know.
MaxFiles == 2

File0901 ==
    [file_path |-> <<"2", "0", "2", "5", "-", "0", "9", "-", "0", "1", ".", "x", "l", "s", "x">>, readable |-> TRUE,
     columns |-> <<"gupiao_daima", "zhuli_jinge">>,
     rows |-> << [gupiao_daima |-> Str(<<"0", "0", "0", "0", "0", "1">>), zhuli_jinge |-> Str(<<"3", "0", "0", "0", "W">>)] >>]

File0902 ==
    [file_path |-> <<"d", "/", "2", "0", "2", "5", "-", "0", "9", "-", "0", "2", ".", "x", "l", "s", "x">>, readable |-> TRUE,
     columns |-> <<"zhuli_jinge", "gupiao_daima">>,
     rows |-> << [gupiao_daima |-> Num(10), zhuli_jinge |-> Str(<<"6", "0", "0", "0", "W">>)] >>]

FileMissingCode ==
    [file_path |-> <<"2", "0", "2", "5", "-", "0", "9", "-", "0", "5", ".", "x", "l", "s">>, readable |-> TRUE,
     columns |-> <<"gupiao_daima", "beizhu", "jinri_chengjiaoe", "chengjiaoe">>,
     rows |-> << [gupiao_daima |-> NaN, beizhu |-> Str(<<"x">>),
                  jinri_chengjiaoe |-> Str(<<"1", ".", "2", "Y">>), chengjiaoe |-> Num(10)],
                 [gupiao_daima |-> Str(<<"0", "0", "0", "0", "0", "1">>), beizhu |-> NaN,
                  jinri_chengjiaoe |-> Str(<<"-">>), chengjiaoe |-> Num(20)] >>]

FileNoDate ==
    [file_path |-> <<"d", "/", "a", ".", "x", "l", "s", "x">>, readable |-> TRUE,
     columns |-> <<"gupiao_daima">>,
     rows |-> << [gupiao_daima |-> Str(<<"0", "0", "0", "0", "0", "1">>)] >>]

FileDateColumn ==
    [file_path |-> <<"a", ".", "x", "l", "s">>, readable |-> TRUE,
     columns |-> <<"jiaoyi_riqi", "gupiao_daima", "zhuli_jinge">>,
     rows |-> << [jiaoyi_riqi |-> Str(<<"2", "0", "2", "5", "-", "0", "9", "-", "0", "1", " ", "0", "0">>), gupiao_daima |-> Str(<<"6", "0", "0", "0", "0", "0">>),
                  zhuli_jinge |-> Num(0)] >>]

FileBlankDate ==
    [file_path |-> <<"b", ".", "x", "l", "s", "x">>, readable |-> TRUE,
     columns |-> <<"gupiao_daima", "jiaoyi_riqi">>,
     rows |-> << [gupiao_daima |-> Str(<<"6", "0", "0", "0", "0", "0">>), jiaoyi_riqi |-> NaN],
                 [gupiao_daima |-> Str(<<"0", "0", "0", "0", "0", "1">>),
                  jiaoyi_riqi |-> Str(<<"2", "0", "2", "5", "-", "0", "9", "-", "0", "1">>)] >>]

FileDottedCode ==
    [file_path |-> <<"2", "0", "2", "5", "-", "0", "9", "-", "0", "2", ".", "x", "l", "s">>, readable |-> TRUE,
     columns |-> <<"gupiao_daima">>,
     rows |-> << [gupiao_daima |-> Str(<<"6", "0", "0", "0", "0", "0", ".", "0">>)] >>]

FileUnreadable ==
    [file_path |-> <<"2", "0", "2", "5", "-", "0", "9", "-", "0", "1", ".", "x", "l", "s">>, readable |-> FALSE, columns |-> <<>>, rows |-> <<>>]

Files == <<File0901, File0902, FileMissingCode, FileNoDate, FileDateColumn, FileDottedCode,
           FileUnreadable, FileBlankDate>>

\* The file lists a batch is started with: paths, given as positions in Files.
RECURSIVE ListsOf(_, _)
ListsOf(S, n) ==
    IF n = 0 THEN {<<>>}
    ELSE LET shorter == ListsOf(S, n - 1)
         IN  shorter \cup {Append(l, x) : l \in {m \in shorter : Len(m) = n - 1}, x \in S}

FileLists == ListsOf(DOMAIN Files, MaxFiles) \ {<<>>}

-----------------------------------------------------------------------------
(* The DatabaseManager driven call by call                                  *)

NoWorker == [state |-> "idle"]

Idle == [op |-> "idle"]

Init ==
    /\ store = {}
    /\ history = <<>>
    /\ last = Idle
    /\ worker = NoWorker
    /\ dialogs = <<>>

InsertBatch ==
    /\ last = Idle
    /\ \E data \in Batches, d \in Dates :
        LET r == insert_batch(store, data, Some(d))
        IN  /\ Cardinality(r[1]) <= MaxRows
            /\ store' = r[1]
            /\ last' = [op |-> "insert_batch", data |-> data, trade_date |-> Some(d),
                        inserted |-> r[2], skipped |-> r[3]]
            /\ UNCHANGED <<history, worker, dialogs>>

DeleteByDate ==
    /\ last = Idle
    /\ \E d \in Dates :
        LET r == delete_by_date(store, Some(d))
        IN  /\ store' = r[1]
            /\ last' = [op |-> "delete_by_date", trade_date |-> Some(d), ret |-> r[2]]
            /\ UNCHANGED <<history, worker, dialogs>>

GetAllDates ==
    /\ last = Idle
    /\ last' = [op |-> "get_all_dates", ret |-> get_all_dates(store)]
    /\ UNCHANGED <<store, history, worker, dialogs>>

GetAllSectors ==
    /\ last = Idle
    /\ last' = [op |-> "get_all_sectors", ret |-> get_all_sectors(store)]
    /\ UNCHANGED <<store, history, worker, dialogs>>

GetPreviousTradeDate ==
    /\ last = Idle
    /\ \E d \in Dates :
        /\ last' = [op |-> "get_previous_trade_date", current_date |-> Some(d),
                    ret |-> get_previous_trade_date(store, Some(d))]
        /\ UNCHANGED <<store, history, worker, dialogs>>

QueryByDate ==
    /\ last = Idle
    /\ \E d \in Dates, c \in CodeFilters, s \in SectorFilters, l \in LimitFilters :
        /\ last' = [op |-> "query_by_date", trade_date |-> Some(d), stock_code |-> c,
                    sector |-> s, limit |-> l,
                    ret |-> query_by_date(store, Some(d), c, s, l)]
        /\ UNCHANGED <<store, history, worker, dialogs>>

QueryByDateWithComparison ==
    /\ last = Idle
    /\ \E d \in Dates, c \in CodeFilters, s \in SectorFilters, l \in LimitFilters :
        /\ last' = [op |-> "query_by_date_with_comparison", trade_date |-> Some(d),
                    stock_code |-> c, sector |-> s, limit |-> l,
                    today_df |-> query_by_date(store, Some(d), c, s, l),
                    ret |-> query_by_date_with_comparison(store, Some(d), c, s, l)]
        /\ UNCHANGED <<store, history, worker, dialogs>>

\* The caller takes the result; the next call can be made.
Return ==
    /\ last # Idle
    /\ last.op \notin {"comparison_today", "comparison_prev_date", "batch_running"}
    /\ last' = Idle
    /\ UNCHANGED <<store, history, worker, dialogs>>

Next ==
    \/ InsertBatch
    \/ DeleteByDate
    \/ GetAllDates
    \/ GetAllSectors
    \/ GetPreviousTradeDate
    \/ QueryByDate
    \/ QueryByDateWithComparison
    \/ Return

Spec == Init /\ [][Next]_vars

-----------------------------------------------------------------------------
(* get_statistics over rows that carry the columns it reads                 *)

\* DataFrame rows with net amount, both auction volumes and turnover rate,
\* each present or not.
RatedRows(code) ==
    { [stock_code |-> Some(code), main_net_amount |-> Some(20),
       auction_today_volume |-> Some(20), auction_yesterday_volume |-> Some(10),
       turnover_rate |-> Some(15)],
      [stock_code |-> Some(code), main_net_amount |-> Some(0),
       auction_today_volume |-> Some(10), auction_yesterday_volume |-> Some(10)],
      [stock_code |-> Some(code),
       auction_today_volume |-> Some(10), turnover_rate |-> Some(0)],
      [stock_code |-> Some(code), main_net_amount |-> Some(0 - 10),
       auction_yesterday_volume |-> Some(10), turnover_rate |-> Some(32)],
      [stock_code |-> Some(code), main_net_amount |-> Some(5),
       auction_today_volume |-> Some(10), auction_yesterday_volume |-> Some(20),
       turnover_rate |-> Some(10)] }

RatedBatches == {<<row>> : row \in UNION {RatedRows(c) : c \in Codes}}

\* insert_batch(data, trade_date) of one such row.
InsertRated ==
    /\ last = Idle
    /\ \E data \in RatedBatches, d \in Dates :
        LET r == insert_batch(store, data, Some(d))
        IN  /\ Cardinality(r[1]) <= MaxRows
            /\ store' = r[1]
            /\ last' = [op |-> "insert_batch", data |-> data, trade_date |-> Some(d),
                        inserted |-> r[2], skipped |-> r[3]]
    /\ UNCHANGED <<history, worker, dialogs>>

\* get_statistics(trade_date)
GetStatistics ==
    /\ last = Idle
    /\ \E d \in Dates :
        last' = [op |-> "get_statistics", trade_date |-> Some(d),
                 ret |-> get_statistics(store, Some(d))]
    /\ UNCHANGED <<store, history, worker, dialogs>>

NextStatistics ==
    \/ InsertRated
    \/ GetStatistics
    \/ Return

SpecStatistics == Init /\ [][NextStatistics]_vars

-----------------------------------------------------------------------------
(* BatchImportWorker: one batch, file by file                               *)

\* What parse_excel returns or raises for each file on disk.
ParsedFiles == [i \in DOMAIN Files |-> parse_excel(Files[i])]

\* Mutant: the trade date returned by parse_excel is not tested.
ImportOneUndated(st, parsed) ==
        IF parsed.error # "none" THEN [error |-> parsed.error, store |-> st]
        ELSE LET r == insert_batch(st, parsed.df, parsed.trade_date)
             IN  [error |-> "none", store |-> r[1], trade_date |-> parsed.trade_date,
                  inserted |-> r[2], skipped |-> r[3]]

\* The try block of one iteration of run(), from the result of parse_excel
\* up to and including insert_batch: the exception it raises or the rows it
\* committed.
ImportOne(st, parsed) ==
        IF parsed.error # "none" THEN [error |-> parsed.error, store |-> st]
        ELSE IF IsNull(parsed.trade_date)
        THEN [error |-> "ValueError: no trade date", store |-> st]
        ELSE LET r == insert_batch(st, parsed.df, parsed.trade_date)
             IN  [error |-> "none", store |-> r[1], trade_date |-> parsed.trade_date,
                  inserted |-> r[2], skipped |-> r[3]]

\* Mutant: one row per file name, a later import of the file replacing it.
add_import_history_replacing(hist, file_name, trade_date, records_count, status, error_message) ==
    Append(SelectSeq(hist, LAMBDA h : h.file_name # file_name),
           [file_name |-> file_name, trade_date |-> trade_date,
            records_count |-> records_count, status |-> status,
            error_message |-> error_message])

\* add_import_history(file_name, trade_date, records_count, status,
\* error_message): the row it appends.
add_import_history(hist, file_name, trade_date, records_count, status, error_message) ==
    Append(hist, [file_name |-> file_name, trade_date |-> trade_date,
                  records_count |-> records_count, status |-> status,
                  error_message |-> error_message])

\* Mutant: the except branch does not count the file.
FileFailedUncounted(w, st, hist, filename, error, history_fails) ==
    [worker |-> [w EXCEPT !.idx = @ + 1,
                          !.in_file = FALSE,
                          !.signals = Append(@,
                                [signal |-> "file_imported", filename |-> filename,
                                 records |-> 0, success |-> FALSE,
                                 message |-> [text |-> error]])],
     store |-> st,
     history |-> IF history_fails THEN hist
                 ELSE add_import_history(hist, filename, NULL, 0, "failed", Some(error))]

\* The except branch of an iteration: the failure is recorded if the history
\* table can be written, signalled, and counted.  progress_updated has been
\* emitted when the iteration began.
FileFailed(w, st, hist, filename, error, history_fails) ==
    [worker |-> [w EXCEPT !.idx = @ + 1,
                          !.in_file = FALSE,
                          !.fail_count = @ + 1,
                          !.signals = Append(@,
                                [signal |-> "file_imported", filename |-> filename,
                                 records |-> 0, success |-> FALSE,
                                 message |-> [text |-> error]])],
     store |-> st,
     history |-> IF history_fails THEN hist
                 ELSE add_import_history(hist, filename, NULL, 0, "failed", Some(error))]

\* The rest of the try block after insert_batch: the history row, the
\* signal, the counters.
FileSucceeded(w, r, hist, filename) ==
    [worker |-> [w EXCEPT !.idx = @ + 1,
                          !.in_file = FALSE,
                          !.success_count = @ + 1,
                          !.total_records = @ + r.inserted,
                          !.signals = Append(@,
                                [signal |-> "file_imported", filename |-> filename,
                                 records |-> r.inserted, success |-> TRUE,
                                 message |-> [text |-> "imported", inserted |-> r.inserted,
                                              skipped |-> r.skipped]])],
     store |-> r.store,
     history |-> add_import_history(hist, filename, r.trade_date, r.inserted,
                                    "success", NULL)]

\* Mutant: a failing file ends the loop.
RunIterationAborting(w, st, hist, file, history_faults) ==
    LET filename == Basename(Files[file].file_path)
        r == ImportOne(st, ParsedFiles[file])
    IN  IF r.error # "none" \/ history_faults >= 1
        THEN [FileFailed(w, r.store, hist, filename, "error", history_faults >= 1)
                 EXCEPT !.worker.idx = Len(w.file_paths)]
        ELSE FileSucceeded(w, r, hist, filename)

\* One iteration of the loop of run() on one file, after its
\* progress_updated.  history_faults: how many calls of add_import_history
\* in this iteration raise (the database is locked, full or closed).  When the
\* call of the try block raises, the except branch makes a second call.
RunIteration(w, st, hist, file, history_faults) ==
    LET filename == Basename(Files[file].file_path)
        r == ImportOne(st, ParsedFiles[file])
    IN  IF r.error # "none"
        THEN FileFailed(w, st, hist, filename, r.error, history_faults >= 1)
        ELSE IF history_faults >= 1
        THEN FileFailed(w, r.store, hist, filename, "OperationalError",
                        history_faults >= 2)
        ELSE FileSucceeded(w, r, hist, filename)

\* BatchImportWorker(file_paths, ...) is constructed and started.
StartImport ==
    /\ worker.state = "idle"
    /\ \E paths \in FileLists :
        worker' = [state |-> "running", file_paths |-> paths, idx |-> 0,
                   in_file |-> FALSE, is_running |-> TRUE, success_count |-> 0,
                   fail_count |-> 0, total_records |-> 0, signals |-> <<>>]
    /\ UNCHANGED <<store, history, last, dialogs>>

\* stop(), called from the dialog while the thread runs.
Stop ==
    /\ worker.state = "running"
    /\ worker.is_running
    /\ worker' = [worker EXCEPT !.is_running = FALSE]
    /\ UNCHANGED <<store, history, last, dialogs>>

\* Mutant: the index of enumerate() is emitted as it is, from 0.
ProgressUpdatedFromZero(w) ==
    [signal |-> "progress_updated", current |-> w.idx, total |-> Len(w.file_paths),
     filename |-> Basename(Files[w.file_paths[w.idx + 1]].file_path)]

\* progress_updated(idx + 1, total_files, filename), as BeginFile emits it.
ProgressUpdated(w) ==
    [signal |-> "progress_updated", current |-> w.idx + 1, total |-> Len(w.file_paths),
     filename |-> Basename(Files[w.file_paths[w.idx + 1]].file_path)]

\* Mutant: the loop takes the next file without reading the flag.
BeginFileUnchecked ==
    /\ worker.state = "running"
    /\ ~worker.in_file
    /\ worker.idx < Len(worker.file_paths)
    /\ worker' = [worker EXCEPT !.in_file = TRUE,
                                !.signals = Append(@, ProgressUpdated(worker))]
    /\ UNCHANGED <<store, history, last, dialogs>>

\* The loop of run() takes the next file: the flag is read at the top of the
\* iteration, and progress_updated is emitted before the file is parsed.
BeginFile ==
    /\ worker.state = "running"
    /\ ~worker.in_file
    /\ worker.is_running
    /\ worker.idx < Len(worker.file_paths)
    /\ worker' = [worker EXCEPT !.in_file = TRUE,
                                !.signals = Append(@, ProgressUpdated(worker))]
    /\ UNCHANGED <<store, history, last, dialogs>>

\* The rest of the iteration: the file is parsed, its rows are upserted, the
\* outcome is recorded and signalled.  The flag is not read again.
ImportFile ==
    /\ worker.state = "running"
    /\ worker.in_file
    /\ LET r == RunIteration(worker, store, history,
                             worker.file_paths[worker.idx + 1], 0)
       IN  /\ worker' = r.worker
           /\ store' = r.store
           /\ history' = r.history
    /\ UNCHANGED <<last, dialogs>>

\* The same, in an iteration during which the INSERT into import_history
\* raises once or twice.
ImportFileHistoryFault ==
    /\ worker.state = "running"
    /\ worker.in_file
    /\ \E history_faults \in {1, 2} :
          LET r == RunIteration(worker, store, history,
                                worker.file_paths[worker.idx + 1], history_faults)
          IN  /\ worker' = r.worker
              /\ store' = r.store
              /\ history' = r.history
    /\ UNCHANGED <<last, dialogs>>

\* The loop is left, by exhaustion or by the flag, and all_completed is
\* emitted.
Complete ==
    /\ worker.state = "running"
    /\ ~worker.in_file
    /\ ~worker.is_running \/ worker.idx = Len(worker.file_paths)
    /\ worker' = [worker EXCEPT !.state = "done",
                                !.signals = Append(@,
                                    [signal |-> "all_completed",
                                     success_count |-> worker.success_count,
                                     fail_count |-> worker.fail_count,
                                     total_records |-> worker.total_records])]
    /\ UNCHANGED <<store, history, last, dialogs>>

NextImport ==
    \/ StartImport
    \/ BeginFile
    \/ ImportFile
    \/ Stop
    \/ Complete
    \/ QueryByDateWithComparison
    \/ Return

SpecImport == Init /\ [][NextImport]_vars

\* The batch with storage errors, and with rows deleted by a client while
\* it runs.
NextImportFaulty ==
    \/ NextImport
    \/ ImportFileHistoryFault
    \/ DeleteByDate

SpecImportFaulty == Init /\ [][NextImportFaulty]_vars

\* A step of the worker thread.  QThread.start() hands run() to a thread of
\* its own, which the operating system keeps scheduling whatever the other
\* threads do; no statement of run() waits for another thread.
RunStep == BeginFile \/ ImportFile \/ ImportFileHistoryFault \/ Complete

\* The worker thread and the dialog that may stop it, with storage errors.
NextRun ==
    \/ StartImport
    \/ BeginFile
    \/ ImportFile
    \/ ImportFileHistoryFault
    \/ Stop
    \/ Complete

SpecImportLive == Init /\ [][NextRun]_vars /\ WF_vars(RunStep)

-----------------------------------------------------------------------------
(* query_by_date_with_comparison read by read, on a connection that another *)
(* thread writes through (check_same_thread=False)                          *)

\* The writes of the other thread that fall within one query.
MaxConcurrentWrites == 1

\* The first read: today_df.
ComparisonReadToday ==
    /\ last = Idle
    /\ \E d \in Dates, c \in CodeFilters :
        last' = [op |-> "comparison_today", trade_date |-> Some(d), stock_code |-> c,
                 sector |-> NULL, limit |-> NULL, writes |-> 0,
                 today_df |-> query_by_date(store, Some(d), c, NULL, NULL)]
    /\ UNCHANGED <<store, history, worker, dialogs>>

\* The second read: _get_previous_trade_date.  It is not made when today_df
\* is empty.
ComparisonResolvePrevious ==
    /\ last.op = "comparison_today"
    /\ last' = [op |-> "comparison_prev_date", trade_date |-> last.trade_date,
                stock_code |-> last.stock_code, sector |-> NULL, limit |-> NULL,
                writes |-> last.writes, today_df |-> last.today_df,
                prev_date |-> IF last.today_df = <<>> THEN NULL
                              ELSE get_previous_trade_date(store, last.trade_date)]
    /\ UNCHANGED <<store, history, worker, dialogs>>

\* Mutant: today's partition is read again with the previous one.
ComparisonReadPreviousRereading ==
    /\ last.op = "comparison_prev_date"
    /\ LET prev_df == IF last.today_df = <<>> \/ IsNull(last.prev_date) THEN <<>>
                      ELSE query_by_date(store, last.prev_date, NULL, NULL, NULL)
           today_df == query_by_date(store, last.trade_date, last.stock_code, NULL, NULL)
       IN  last' = [op |-> "comparison_done", trade_date |-> last.trade_date,
                    stock_code |-> last.stock_code, sector |-> NULL, limit |-> NULL,
                    writes |-> last.writes, today_df |-> last.today_df,
                    prev_date |-> last.prev_date, prev_df |-> prev_df,
                    ret |-> comparison_result(today_df, last.prev_date, prev_df)]
    /\ UNCHANGED <<store, history, worker, dialogs>>

\* The third read, prev_df, made when there are today-rows and a previous
\* date, and the rest of the method.
ComparisonReadPrevious ==
    /\ last.op = "comparison_prev_date"
    /\ LET prev_df == IF last.today_df = <<>> \/ IsNull(last.prev_date) THEN <<>>
                      ELSE query_by_date(store, last.prev_date, NULL, NULL, NULL)
       IN  last' = [op |-> "comparison_done", trade_date |-> last.trade_date,
                    stock_code |-> last.stock_code, sector |-> NULL, limit |-> NULL,
                    writes |-> last.writes, today_df |-> last.today_df,
                    prev_date |-> last.prev_date, prev_df |-> prev_df,
                    ret |-> comparison_result(last.today_df, last.prev_date, prev_df)]
    /\ UNCHANGED <<store, history, worker, dialogs>>

\* insert_batch of another thread, committed between two reads of the query.
ConcurrentInsertBatch ==
    /\ last.op \in {"comparison_today", "comparison_prev_date"}
    /\ last.writes < MaxConcurrentWrites
    /\ \E data \in {b \in Batches : Len(b) = 1}, d \in Dates :
        LET r == insert_batch(store, data, Some(d))
        IN  /\ Cardinality(r[1]) <= MaxRows
            /\ store' = r[1]
    /\ last' = [last EXCEPT !.writes = @ + 1]
    /\ UNCHANGED <<history, worker, dialogs>>

\* delete_by_date of another thread, committed between two reads of the query.
ConcurrentDeleteByDate ==
    /\ last.op \in {"comparison_today", "comparison_prev_date"}
    /\ last.writes < MaxConcurrentWrites
    /\ \E d \in Dates :
        store' = delete_by_date(store, Some(d))[1]
    /\ last' = [last EXCEPT !.writes = @ + 1]
    /\ UNCHANGED <<history, worker, dialogs>>

NextInterleaved ==
    \/ InsertBatch
    \/ ComparisonReadToday
    \/ ComparisonResolvePrevious
    \/ ComparisonReadPrevious
    \/ ConcurrentInsertBatch
    \/ ConcurrentDeleteByDate
    \/ Return

SpecInterleaved == Init /\ [][NextInterleaved]_vars

-----------------------------------------------------------------------------
(* insert_batch record by record, inside the transaction sqlite3 opens       *)
(* before the first INSERT and commit() closes after the loop               *)

\* The rows the table holds when a batch followed record by record begins.
MaxRowsBefore == 1

\* insert_batch is entered.  store is the committed table; view is the table
\* as the connection sees it inside its open transaction.
BatchBegin ==
    /\ last = Idle
    /\ Cardinality(store) <= MaxRowsBefore
    /\ \E data \in Batches, d \in Dates :
        last' = [op |-> "batch_running", data |-> data, trade_date |-> Some(d),
                 done |-> 0, view |-> store, inserted |-> 0, skipped |-> 0,
                 read |-> NULL]
    /\ UNCHANGED <<store, history, worker, dialogs>>

\* Mutant: commit() after every execute.
BatchExecuteCommitting ==
    /\ last.op = "batch_running"
    /\ last.done < Len(last.data)
    /\ LET r == UpsertOne(<<last.view, last.inserted, last.skipped>>,
                          last.data[last.done + 1], last.trade_date)
       IN  /\ Cardinality(r[1]) <= MaxRows
           /\ last' = [last EXCEPT !.done = @ + 1, !.view = r[1],
                                   !.inserted = r[2], !.skipped = r[3]]
           /\ store' = r[1]
    /\ UNCHANGED <<history, worker, dialogs>>

\* One iteration of the loop: cursor.execute of one record, or its except
\* branch.  Nothing is committed.
BatchExecute ==
    /\ last.op = "batch_running"
    /\ last.done < Len(last.data)
    /\ LET r == UpsertOne(<<last.view, last.inserted, last.skipped>>,
                          last.data[last.done + 1], last.trade_date)
       IN  /\ Cardinality(r[1]) <= MaxRows
           /\ last' = [last EXCEPT !.done = @ + 1, !.view = r[1],
                                   !.inserted = r[2], !.skipped = r[3]]
    /\ UNCHANGED <<store, history, worker, dialogs>>

\* query_by_date of another thread between two iterations, made through the
\* shared connection (check_same_thread=False): it reads the view.
BatchInterleavedRead ==
    /\ last.op = "batch_running"
    /\ last' = [last EXCEPT !.read =
                    Some(query_by_date(last.view, last.trade_date, NULL, NULL, NULL))]
    /\ UNCHANGED <<store, history, worker, dialogs>>

\* self.connection.commit() after the loop, and the return.
BatchCommit ==
    /\ last.op = "batch_running"
    /\ last.done = Len(last.data)
    /\ store' = last.view
    /\ last' = [op |-> "insert_batch", data |-> last.data, trade_date |-> last.trade_date,
                inserted |-> last.inserted, skipped |-> last.skipped]
    /\ UNCHANGED <<history, worker, dialogs>>

\* The batch is interrupted before its commit: the process ends, or the
\* connection is closed under it (DatabaseManager.close from the main
\* window's closeEvent).  The open transaction is rolled back.
BatchInterrupted ==
    /\ last.op = "batch_running"
    /\ last' = [op |-> "batch_interrupted", data |-> last.data,
                trade_date |-> last.trade_date, done |-> last.done]
    /\ UNCHANGED <<store, history, worker, dialogs>>

NextBatch ==
    \/ BatchBegin
    \/ BatchExecute
    \/ BatchInterleavedRead
    \/ BatchCommit
    \/ BatchInterrupted
    \/ Return

SpecBatch == Init /\ [][NextBatch]_vars

-----------------------------------------------------------------------------
(* DataImportDialog, as MainWindow.open_import_dialog creates and runs it   *)

\* The dialogs one session opens, and the files picked in one of them.
MaxDialogs == 2

MaxDialogFiles == 1

DialogFiles == {1, 2, 4}

DialogFileLists == ListsOf(DialogFiles, MaxDialogFiles) \ {<<>>}

\* BatchImportWorker(file_paths, ...) after start().
BatchImportWorker(paths) ==
    [state |-> "running", file_paths |-> paths, idx |-> 0,
     in_file |-> FALSE, is_running |-> TRUE, success_count |-> 0,
     fail_count |-> 0, total_records |-> 0, signals |-> <<>>]

\* DataImportDialog.__init__ and init_ui: no files, no worker, the start
\* button disabled.  waiting: close_dialog is inside worker.wait().
DataImportDialog ==
    [visible |-> TRUE, file_paths |-> <<>>, btn_start |-> FALSE, btn_select |-> TRUE,
     worker |-> NoWorker, waiting |-> FALSE, result |-> "none"]

\* worker.isRunning()
isRunning(w) == w.state = "running"

\* The GUI thread is inside worker.wait() and handles no event.
GuiBlocked == \E d \in DOMAIN dialogs : dialogs[d].waiting

\* The dialog that has the input: exec_() made it modal, so the main window
\* gets no click while one is shown.
Shown == {d \in DOMAIN dialogs : dialogs[d].visible}

\* MainWindow.open_import_dialog: a new dialog, run with exec_().
OpenImportDialog ==
    /\ ~GuiBlocked
    /\ Shown = {}
    /\ Len(dialogs) < MaxDialogs
    /\ dialogs' = Append(dialogs, DataImportDialog)
    /\ UNCHANGED <<store, history, last, worker>>

\* select_files (select_folder ends the same way): a non-empty choice
\* replaces file_paths and enables the start button.
SelectFiles ==
    /\ ~GuiBlocked
    /\ \E d \in Shown, paths \in DialogFileLists :
          /\ dialogs[d].btn_select
          /\ dialogs' = [dialogs EXCEPT ![d].file_paths = paths,
                                        ![d].btn_start = TRUE]
    /\ UNCHANGED <<store, history, last, worker>>

\* start_import: the buttons are disabled, a worker is created on the
\* dialog's file_paths and started.  There is no test of self.worker.
start_import(dlg) ==
    IF dlg.file_paths = <<>> THEN dlg
    ELSE [dlg EXCEPT !.btn_start = FALSE, !.btn_select = FALSE,
                     !.worker = BatchImportWorker(dlg.file_paths)]

\* A click on btn_start; a disabled button delivers none.
ClickStart ==
    /\ ~GuiBlocked
    /\ \E d \in Shown :
          /\ dialogs[d].btn_start
          /\ dialogs' = [dialogs EXCEPT ![d] = start_import(dialogs[d])]
    /\ UNCHANGED <<store, history, last, worker>>

\* The worker of a dialog takes its next file (run(), top of the loop).
DialogBeginFile ==
    /\ \E d \in DOMAIN dialogs :
          LET w == dialogs[d].worker
          IN  /\ isRunning(w)
              /\ ~w.in_file
              /\ w.is_running
              /\ w.idx < Len(w.file_paths)
              /\ dialogs' = [dialogs EXCEPT ![d].worker =
                                [w EXCEPT !.in_file = TRUE,
                                          !.signals = Append(@, ProgressUpdated(w))]]
    /\ UNCHANGED <<store, history, last, worker>>

\* The worker of a dialog imports the file it has taken.
DialogImportFile ==
    /\ \E d \in DOMAIN dialogs :
          LET w == dialogs[d].worker
          IN  /\ isRunning(w)
              /\ w.in_file
              /\ LET r == RunIteration(w, store, history, w.file_paths[w.idx + 1], 0)
                 IN  /\ dialogs' = [dialogs EXCEPT ![d].worker = r.worker]
                     /\ store' = r.store
                     /\ history' = r.history
    /\ UNCHANGED <<last, worker>>

\* The worker of a dialog leaves its loop and emits all_completed.
DialogComplete ==
    /\ \E d \in DOMAIN dialogs :
          LET w == dialogs[d].worker
          IN  /\ isRunning(w)
              /\ ~w.in_file
              /\ ~w.is_running \/ w.idx = Len(w.file_paths)
              /\ dialogs' = [dialogs EXCEPT ![d].worker =
                                [w EXCEPT !.state = "done",
                                          !.signals = Append(@,
                                              [signal |-> "all_completed",
                                               success_count |-> w.success_count,
                                               fail_count |-> w.fail_count,
                                               total_records |-> w.total_records])]]
    /\ UNCHANGED <<store, history, last, worker>>

\* close_dialog, from btn_cancel or from closeEvent, with a worker running
\* and the question answered Yes: stop(), then wait().
CloseDialogCancel ==
    /\ ~GuiBlocked
    /\ \E d \in Shown :
          /\ isRunning(dialogs[d].worker)
          /\ dialogs' = [dialogs EXCEPT ![d].worker.is_running = FALSE,
                                        ![d].waiting = TRUE]
    /\ UNCHANGED <<store, history, last, worker>>

\* wait() returns when run() has returned; close_dialog goes on to reject().
CloseDialogReject ==
    /\ \E d \in DOMAIN dialogs :
          /\ dialogs[d].waiting
          /\ ~isRunning(dialogs[d].worker)
          /\ dialogs' = [dialogs EXCEPT ![d].waiting = FALSE,
                                        ![d].visible = FALSE,
                                        ![d].result = "rejected"]
    /\ UNCHANGED <<store, history, last, worker>>

\* close_dialog with no worker running: accept().
CloseDialogAccept ==
    /\ ~GuiBlocked
    /\ \E d \in Shown :
          /\ ~isRunning(dialogs[d].worker)
          /\ dialogs' = [dialogs EXCEPT ![d].visible = FALSE,
                                        ![d].result = "accepted"]
    /\ UNCHANGED <<store, history, last, worker>>

\* The Esc key: QDialog.keyPressEvent calls reject(), which the class does
\* not override; reject() hides the dialog without a close event, so neither
\* closeEvent nor close_dialog runs, and exec_() returns.
PressEscape ==
    /\ ~GuiBlocked
    /\ \E d \in Shown :
          dialogs' = [dialogs EXCEPT ![d].visible = FALSE,
                                    ![d].result = "rejected"]
    /\ UNCHANGED <<store, history, last, worker>>

NextDialog ==
    \/ OpenImportDialog
    \/ SelectFiles
    \/ ClickStart
    \/ DialogBeginFile
    \/ DialogImportFile
    \/ DialogComplete
    \/ CloseDialogCancel
    \/ CloseDialogReject
    \/ CloseDialogAccept
    \/ PressEscape

SpecDialog == Init /\ [][NextDialog]_vars

-----------------------------------------------------------------------------
(* ExcelParser called value by value and frame by frame                     *)

\* The texts of a numeric cell: up to MaxTextLen characters of digits, the
\* point, the thousands separator, the percent sign, the two unit markers,
\* the dash and the blank.  Numerals float() reads with more than one
\* fractional digit are left out (values are held in tenths).
MaxTextLen == 4

NumericAlphabet == {"5", "0", ".", ",", "%", "W", "Y", "-", " "}

FractionDigits(text) ==
    IF DotAt(text) = 0 THEN 0
    ELSE Cardinality({i \in (DotAt(text) + 1)..Len(text) : text[i] \in Digits})

NumericTexts == {t \in ListsOf(NumericAlphabet, MaxTextLen) : FractionDigits(t) <= 1}

\* None and NaN (both pd.isna), and numbers.
NumericNonTexts == {NaN, Num(0), Num(15), Num(-20)}

\* The raw stock codes: an empty cell, numbers, and texts of up to MaxCodeLen
\* characters, with the two codes of the catalogue written out in full.
MaxCodeLen == 3

CodeAlphabet == {"0", "1", ".", "A"}

StockCodeNonTexts == {NaN, Num(10), Num(6000000), Num(12345670), Num(-10)}

StockCodeTexts ==
    ListsOf(CodeAlphabet, MaxCodeLen)
      \cup {<<"0", "0", "0", "0", "0", "1">>, <<"6", "0", "0", "0", "0", "0", ".", "0">>}

\* The frames handed to _normalize_data: up to MaxColumns distinct labels in
\* any order, one row.  chengjiaoe and jinri_chengjiaoe map to the same
\* column; beizhu has no mapping.
MaxColumns == 3

FrameLabels == {"gupiao_daima", "chengjiaoe", "jinri_chengjiaoe", "beizhu"}

FrameRow ==
    [gupiao_daima |-> Str(<<"0", "0", "0", "0", "0", "1">>), chengjiaoe |-> Num(10),
     jinri_chengjiaoe |-> Str(<<"1", ".", "2", "Y">>), beizhu |-> Str(<<"x">>)]

SourceFrames ==
    {[columns |-> cols, rows |-> <<FrameRow>>] :
        cols \in {l \in ListsOf(FrameLabels, MaxColumns) :
                    \A i, j \in 1..Len(l) : l[i] = l[j] => i = j}}

\* unmapped_excel_cols of _normalize_data: the labels logged as ignored.
unmapped_excel_cols(df) ==
    SelectSeq(df.columns, LAMBDA l : l \notin DOMAIN COLUMN_MAPPING)

\* A call of _parse_numeric and what it returns.
ParseNumericCall(value) ==
    [op |-> "parse_numeric", value |-> value, ret |-> parse_numeric(value)]

\* ExcelParser._parse_numeric(value)
ParseNumeric ==
    /\ last = Idle
    /\ \/ \E value \in NumericNonTexts : last' = ParseNumericCall(value)
       \/ \E t \in NumericTexts : last' = ParseNumericCall(Str(t))
    /\ UNCHANGED <<store, history, worker, dialogs>>

\* A call of the stock_code lambda of _clean_data: the ValueError of int(),
\* or the text returned.
CleanStockCodeOf(x) ==
    [op |-> "clean_stock_code", x |-> x, raises |-> StockCodeRaises(x),
     ret |-> IF StockCodeRaises(x) THEN NULL ELSE Some(CleanStockCode(x))]

\* The stock_code lambda of _clean_data applied to one raw value.
CleanStockCodeCall ==
    /\ last = Idle
    /\ \/ \E x \in StockCodeNonTexts : last' = CleanStockCodeOf(x)
       \/ \E t \in StockCodeTexts : last' = CleanStockCodeOf(Str(t))
    /\ UNCHANGED <<store, history, worker, dialogs>>

\* ExcelParser._normalize_data(df, COLUMN_MAPPING)
NormalizeData ==
    /\ last = Idle
    /\ \E df \in SourceFrames :
          last' = [op |-> "normalize_data", df |-> df,
                   raises |-> normalize_data_raises(df),
                   unmapped |-> unmapped_excel_cols(df),
                   ret |-> IF normalize_data_raises(df) THEN <<>> ELSE normalize_data(df)]
    /\ UNCHANGED <<store, history, worker, dialogs>>

\* The pieces the file names are made of: dates of each shape, one of them
\* outside the calendar, a date with one-digit fields, a letter and a digit.
MaxNameParts == 3

NameParts ==
    {<<"2", "0", "2", "5", "-", "0", "9", "-", "0", "1">>,
     <<"2", "0", "2", "4", "/", "0", "8", "/", "0", "9">>,
     <<"2", "0", "2", "3", "\\", "0", "7", "\\", "0", "5">>,
     <<"2", "0", "2", "5", "-", "1", "3", "-", "4", "5">>,
     <<"2", "0", "2", "5", "-", "9", "-", "1">>,
     <<"x">>, <<"7">>}

RECURSIVE Joined(_)
Joined(parts) == IF parts = <<>> THEN <<>> ELSE Head(parts) \o Joined(Tail(parts))

FileNames == {Joined(parts) : parts \in UNION {[1..n -> NameParts] : n \in 1..MaxNameParts}}

\* ExcelParser.extract_date_from_filename(filename)
ExtractDateFromFilename ==
    /\ last = Idle
    /\ \E filename \in FileNames :
          last' = [op |-> "extract_date_from_filename", filename |-> filename,
                   ret |-> extract_date_from_filename(filename)]
    /\ UNCHANGED <<store, history, worker, dialogs>>

NextParse ==
    \/ ExtractDateFromFilename
    \/ ParseNumeric
    \/ CleanStockCodeCall
    \/ NormalizeData
    \/ Return

SpecParse == Init /\ [][NextParse]_vars

-----------------------------------------------------------------------------
(* Vocabulary of the properties                                             *)

\* The dates that have at least one stored row.
StoredDates(st) == {Val(r.trade_date) : r \in st}

\* The stored rows of one (trade_date, stock_code) key.
KeyRows(st, d, code) == {r \in st : r.trade_date = d /\ r.stock_code = code}

\* t is the greatest stored date strictly below D.
IsMaxBelow(st, t, D) ==
    /\ t \in StoredDates(st)
    /\ TextLess(t, D)
    /\ \A u \in StoredDates(st) : TextLess(u, D) => TextLeq(u, t)

\* Record i of a batch was written: its INSERT did not raise.
Written(data, d, i) ==
    /\ ~IsNull(d)
    /\ "stock_code" \in DOMAIN data[i]
    /\ ~IsNull(data[i].stock_code)
    /\ \A c \in DOMAIN data[i] : data[i][c] # Unbindable

\* Record i is the last written record of the batch for its stock_code.
LastWritten(data, d, i) ==
    /\ Written(data, d, i)
    /\ \A j \in (i + 1)..Len(data) :
          Written(data, d, j) => data[j].stock_code # data[i].stock_code

\* row holds exactly what record rec wrote under date d: every column the
\* record carries, and NULL in every column it does not carry.
HoldsWrite(row, rec, d) ==
    /\ row.trade_date = d
    /\ \A c \in DataColumns :
          row[c] = (IF c \in DOMAIN rec THEN rec[c] ELSE NULL)

\* The stock codes of a result, in result order.
CodesOf(df) == [i \in 1..Len(df) |-> Val(df[i].stock_code)]

NonDecreasing(codes) ==
    \A i \in 1..(Len(codes) - 1) : TextLeq(codes[i], codes[i + 1])

-----------------------------------------------------------------------------
(* C1: after any sequence of insert_batch calls the store holds at most one *)
(* row per (trade_date, stock_code); a record upserted on a key that is     *)
(* already stored leaves exactly one row for that key, and that row holds   *)
(* the most recent write in full (a column the later write lacks is NULL). *)

C1_UniqueKeys ==
    \A r, q \in store :
        (r.trade_date = q.trade_date /\ r.stock_code = q.stock_code) => r = q

C1_ReplaceStep ==
    last'.op = "insert_batch" =>
        \A i \in 1..Len(last'.data) :
            LastWritten(last'.data, last'.trade_date, i) =>
                \E row \in store' :
                    /\ KeyRows(store', last'.trade_date, last'.data[i].stock_code) = {row}
                    /\ HoldsWrite(row, last'.data[i], last'.trade_date)

C1_UpsertReplaces == [](C1_UniqueKeys) /\ [][C1_ReplaceStep]_vars

\* A batch wrote the same key twice, first with a sector and then from a
\* frame without a sector column: one row is left and its sector is NULL.
C1_Witness ==
    /\ last.op = "insert_batch"
    /\ Len(last.data) = 2
    /\ Written(last.data, last.trade_date, 1)
    /\ Written(last.data, last.trade_date, 2)
    /\ last.data[1].stock_code = last.data[2].stock_code
    /\ "sector" \in DOMAIN last.data[1]
    /\ "sector" \notin DOMAIN last.data[2]
    /\ \E row \in store :
          /\ KeyRows(store, last.trade_date, last.data[2].stock_code) = {row}
          /\ IsNull(row.sector)

-----------------------------------------------------------------------------
(* C2: _get_previous_trade_date(D) returns the greatest stored trade_date   *)
(* strictly below D, whatever calendar days lie between, and None exactly   *)
(* when no stored date is below D; for consecutive entries of               *)
(* get_all_dates() the previous date of dates[i] is dates[i+1].            *)

C2_PreviousTradeDate ==
    /\ last.op = "get_previous_trade_date" =>
          LET D == Val(last.current_date)
              below == {t \in StoredDates(store) : TextLess(t, D)}
          IN  /\ IsNull(last.ret) <=> below = {}
              /\ ~IsNull(last.ret) => IsMaxBelow(store, Val(last.ret), D)
    /\ LET dates == get_all_dates(store)
       IN  \A i \in 1..(Len(dates) - 1) :
               get_previous_trade_date(store, Some(dates[i])) = Some(dates[i + 1])

\* 2025-09-01 and 2025-09-02 are stored and the previous date of 2025-09-05
\* is asked for: 2025-09-02 is returned, over the two empty calendar days.
C2_Witness ==
    /\ last.op = "get_previous_trade_date"
    /\ last.current_date = Some(DateList[3])
    /\ last.ret = Some(DateList[2])
    /\ DateList[1] \in StoredDates(store)

-----------------------------------------------------------------------------
(* C3: in query_by_date_with_comparison(D), for every returned row: when    *)
(* its code has a row on the resolved previous date, today's and the        *)
(* previous value are both present and the previous value is not zero, the  *)
(* ratio is today / previous; in every other case the ratio is None.  This  *)
(* holds separately for main_net_prev_ratio (main_net_amount) and           *)
(* volume_prev_ratio (auction_today_volume).                               *)

\* ratio is what the claim asks of one comparison column of one row.
C3_RatioIs(ratio, today, prevRows, col) ==
    IF /\ prevRows # {}
       /\ ~IsNull(today)
       /\ \A q \in prevRows : ~IsNull(q[col]) /\ Val(q[col]) # 0
    THEN /\ ~IsNull(ratio)
         /\ Val(ratio).den # 0
         /\ \A q \in prevRows : Val(ratio).num * Val(q[col]) = Val(today) * Val(ratio).den
    ELSE IsNull(ratio)

C3_Ratios ==
    last.op = "query_by_date_with_comparison" =>
        \A i \in 1..Len(last.ret) :
            LET row == last.ret[i]
                prevRows == {q \in store :
                               /\ q.stock_code = row.stock_code
                               /\ IsMaxBelow(store, Val(q.trade_date), Val(last.trade_date))}
            IN  /\ C3_RatioIs(row.main_net_prev_ratio, row.main_net_amount,
                              prevRows, "main_net_amount")
                /\ C3_RatioIs(row.volume_prev_ratio, row.auction_today_volume,
                              prevRows, "auction_today_volume")

\* One returned row has a computed main_net_prev_ratio and no
\* volume_prev_ratio, and another returned row has no ratio at all.
C3_Witness ==
    /\ last.op = "query_by_date_with_comparison"
    /\ \E i \in 1..Len(last.ret) :
          /\ ~IsNull(last.ret[i].main_net_prev_ratio)
          /\ IsNull(last.ret[i].volume_prev_ratio)
    /\ \E i \in 1..Len(last.ret) :
          /\ IsNull(last.ret[i].main_net_prev_ratio)
          /\ IsNull(last.ret[i].volume_prev_ratio)

-----------------------------------------------------------------------------
(* C4: when today's partition is not empty and either no stored date is     *)
(* earlier than D or the previous date's partition is empty,                *)
(* query_by_date_with_comparison(D) returns every today-row with both       *)
(* comparison columns None.                                                *)

\* No stored date is earlier than the queried one, in a query no write fell
\* into.
C4_NoEarlierDate ==
    /\ last.writes = 0
    /\ \A t \in StoredDates(store) : ~TextLess(t, Val(last.trade_date))

\* A previous date was resolved and its partition was read empty.
C4_PreviousPartitionEmpty ==
    /\ ~IsNull(last.prev_date)
    /\ last.prev_df = <<>>

C4_NoPreviousDate ==
    (/\ last.op = "comparison_done"
     /\ last.today_df # <<>>
     /\ C4_NoEarlierDate \/ IsNull(last.prev_date) \/ C4_PreviousPartitionEmpty)
    => /\ Len(last.ret) = Len(last.today_df)
       /\ \A i \in 1..Len(last.ret) :
             /\ \A c \in DOMAIN last.today_df[i] : last.ret[i][c] = last.today_df[i][c]
             /\ IsNull(last.ret[i].main_net_prev_ratio)
             /\ IsNull(last.ret[i].volume_prev_ratio)

\* The previous date was resolved, its rows were deleted before they were
\* read, and the today-rows came back with both columns None.
C4_Witness ==
    /\ last.op = "comparison_done"
    /\ C4_PreviousPartitionEmpty
    /\ Len(last.ret) >= 1
    /\ Len(last.ret) = Len(last.today_df)
    /\ \A i \in 1..Len(last.ret) :
          IsNull(last.ret[i].main_net_prev_ratio) /\ IsNull(last.ret[i].volume_prev_ratio)

-----------------------------------------------------------------------------
(* C5: scenario A.  After the worker has imported the two files named       *)
(* 2025-09-01.xlsx and 2025-09-02.xlsx, each with one row for code 000001   *)
(* whose main_net_amount cell is "3000W" and "6000W" (W the ten-thousand    *)
(* unit), query_by_date_with_comparison("2025-09-02") without filters       *)
(* returns exactly one row, of code 000001, and its main_net_prev_ratio is  *)
(* 2.0: the amount of 09-02 divided by the amount of 09-01.                 *)

\* The batch that ended was made of the two files of the scenario, and both
\* were imported.
C5_ScenarioImported ==
    /\ worker.state = "done"
    /\ Len(worker.file_paths) = 2
    /\ {Files[worker.file_paths[i]] : i \in 1..2} = {File0901, File0902}
    /\ worker.success_count = 2

\* The call query_by_date_with_comparison("2025-09-02") is made in this step.
C5_QueryStep ==
    /\ last = Idle
    /\ last'.op = "query_by_date_with_comparison"
    /\ last'.trade_date = Some(DateList[2])
    /\ IsNull(last'.stock_code) /\ IsNull(last'.sector) /\ IsNull(last'.limit)

C5_OneRowRatioTwo(ret) ==
    /\ Len(ret) = 1
    /\ ret[1].stock_code = Some(CodeList[1])
    /\ ret[1].main_net_amount = Some(60000)
    /\ ~IsNull(ret[1].main_net_prev_ratio)
    /\ Val(ret[1].main_net_prev_ratio).den = 30000
    /\ Val(ret[1].main_net_prev_ratio).num = 2 * Val(ret[1].main_net_prev_ratio).den

C5_ScenarioA ==
    [][C5_ScenarioImported /\ C5_QueryStep => C5_OneRowRatioTwo(last'.ret)]_vars

\* The scenario was run and the query answered with the ratio 6000 / 3000.
C5_Witness ==
    /\ C5_ScenarioImported
    /\ worker.file_paths[1] # worker.file_paths[2]
    /\ last.op = "query_by_date_with_comparison"
    /\ last.trade_date = Some(DateList[2])
    /\ IsNull(last.stock_code) /\ IsNull(last.sector) /\ IsNull(last.limit)
    /\ C5_OneRowRatioTwo(last.ret)

-----------------------------------------------------------------------------
(* C6: scenario B.  When a batch contains a file with a row whose           *)
(* stock_code is missing, the worker reports that file as failed with       *)
(* inserted count 0: it is counted in fail_count, not in success_count, it  *)
(* adds nothing to total_records, and the files after it are still          *)
(* processed.                                                              *)

\* The file has a row with no stock code: no stock-code column, or an empty
\* cell in it.
C6_RowMissingCode(file) ==
    \E i \in 1..Len(file.rows) :
        \/ \A k \in 1..Len(file.columns) : file.columns[k] # "gupiao_daima"
        \/ LET cell == file.rows[i]["gupiao_daima"]
           IN  cell.t = "nan" \/ (cell.t = "str" /\ Strip(cell.v) = <<>>)

\* file_imported as emitted for the k-th file of the list.
C6_FileImported(k) == worker.signals[2 * k]

C6_MissingCodeFileFails ==
    worker.state = "done" /\ worker.is_running =>
        /\ worker.idx = Len(worker.file_paths)
        /\ \A k \in 1..Len(worker.file_paths) :
              C6_RowMissingCode(Files[worker.file_paths[k]]) =>
                  /\ ~C6_FileImported(k).success
                  /\ C6_FileImported(k).records = 0
        /\ (\A k \in 1..Len(worker.file_paths) :
                C6_RowMissingCode(Files[worker.file_paths[k]]))
            => worker.success_count = 0 /\ worker.total_records = 0

-----------------------------------------------------------------------------
(* C7: after delete_by_date(d) returns, d is not in get_all_dates() and     *)
(* _get_previous_trade_date returns d for no date (it resolves the next     *)
(* earlier stored date, or None), until records for d are upserted again;   *)
(* delete_by_date returns the number of rows it removed.                   *)

\* No call resolves a date that has no stored row.
C7_Unresolvable(d) ==
    /\ \A i \in 1..Len(get_all_dates(store)) : get_all_dates(store)[i] # d
    /\ \A D \in Dates :
          LET prev == get_previous_trade_date(store, Some(D))
          IN  /\ prev # Some(d)
              /\ ~IsNull(prev) => IsMaxBelow(store, Val(prev), D)
              /\ IsNull(prev) => \A t \in StoredDates(store) : ~TextLess(t, D)

C7_AfterDelete ==
    /\ last.op = "delete_by_date" => C7_Unresolvable(Val(last.trade_date))
    /\ \A d \in Dates \ StoredDates(store) : C7_Unresolvable(d)

C7_Step ==
    /\ last'.op = "delete_by_date" =>
          LET gone == {r \in store : r.trade_date = last'.trade_date}
          IN  /\ last'.ret = Cardinality(gone)
              /\ store' = store \ gone
    /\ \A d \in Dates :
          (d \notin StoredDates(store) /\ d \in StoredDates(store')) =>
              (last'.op = "insert_batch" /\ last'.trade_date = Some(d))

C7_DeleteByDate == [](C7_AfterDelete) /\ [][C7_Step]_vars

\* 2025-09-02 was deleted between two stored dates: 2025-09-05 now resolves
\* 2025-09-01.
C7_Witness ==
    /\ last.op = "delete_by_date"
    /\ last.trade_date = Some(DateList[2])
    /\ last.ret >= 1
    /\ get_previous_trade_date(store, Some(DateList[3])) = Some(DateList[1])
    /\ DateList[3] \in StoredDates(store)

-----------------------------------------------------------------------------
(* C8: for every store and every combination of the code, sector and limit  *)
(* filters, the rows query_by_date returns are non-decreasing by            *)
(* stock_code, and query_by_date_with_comparison returns its rows in that   *)
(* same order.                                                             *)

C8_Ordering ==
    /\ last.op = "query_by_date" => NonDecreasing(CodesOf(last.ret))
    /\ last.op = "query_by_date_with_comparison" =>
          /\ NonDecreasing(CodesOf(last.today_df))
          /\ CodesOf(last.ret) = CodesOf(last.today_df)
          /\ NonDecreasing(CodesOf(last.ret))

\* A comparison query returned two rows, in order, and computed a ratio.
C8_Witness ==
    /\ last.op = "query_by_date_with_comparison"
    /\ Len(last.ret) = 2
    /\ TextLess(Val(last.ret[1].stock_code), Val(last.ret[2].stock_code))
    /\ \E i \in 1..2 : ~IsNull(last.ret[i].main_net_prev_ratio)

-----------------------------------------------------------------------------
(* C9: in insert_batch a record whose INSERT fails is counted as skipped    *)
(* and does not keep the remaining records from being upserted;             *)
(* inserted_count + skipped_count is the number of records of the batch.    *)
(* As amended: every non-failing record is upserted, so that after the      *)
(* batch the row of its key is the last non-failing record of the batch     *)
(* with that stock_code.                                                   *)

C9_Counts ==
    /\ last.inserted + last.skipped = Len(last.data)
    /\ last.inserted =
          Cardinality({i \in 1..Len(last.data) : Written(last.data, last.trade_date, i)})

C9_FailureIsolation ==
    last.op = "insert_batch" =>
        /\ C9_Counts
        /\ \A i \in 1..Len(last.data) :
              LastWritten(last.data, last.trade_date, i) =>
                  \E row \in store : HoldsWrite(row, last.data[i], last.trade_date)

\* The claim as first stated: every non-failing record is stored.
C9_Original ==
    last.op = "insert_batch" =>
        /\ last.inserted + last.skipped = Len(last.data)
        /\ \A i \in 1..Len(last.data) :
              Written(last.data, last.trade_date, i) =>
                  \E row \in store : HoldsWrite(row, last.data[i], last.trade_date)

\* The first record of a batch failed and the second one was stored.
C9_Witness ==
    /\ last.op = "insert_batch"
    /\ Len(last.data) = 2
    /\ ~Written(last.data, last.trade_date, 1)
    /\ Written(last.data, last.trade_date, 2)
    /\ last.inserted = 1
    /\ last.skipped = 1
    /\ \E row \in store : HoldsWrite(row, last.data[2], last.trade_date)

-----------------------------------------------------------------------------
(* C10: for every file list run without stop(), the failure of one file     *)
(* (no trade date, an exception of the parser, a storage error) does not    *)
(* end the batch: every file of the list is processed, in list order,       *)
(* success_count + fail_count is the number of files, and total_records is  *)
(* the sum of the inserted counts of the files reported as imported.        *)

RECURSIVE C10_SumImported(_)
C10_SumImported(signals) ==
    IF signals = <<>> THEN 0
    ELSE (IF Head(signals).signal = "file_imported" /\ Head(signals).success
          THEN Head(signals).records ELSE 0) + C10_SumImported(Tail(signals))

C10_Count(signals, success) ==
    Cardinality({i \in 1..Len(signals) :
                    signals[i].signal = "file_imported" /\ signals[i].success = success})

\* The k-th iteration announced and reported the k-th file of the list.
C10_InListOrder(k) ==
    LET filename == Basename(Files[worker.file_paths[k]].file_path)
    IN  /\ worker.signals[2 * k - 1].signal = "progress_updated"
        /\ worker.signals[2 * k - 1].current = k
        /\ worker.signals[2 * k - 1].total = Len(worker.file_paths)
        /\ worker.signals[2 * k - 1].filename = filename
        /\ worker.signals[2 * k].signal = "file_imported"
        /\ worker.signals[2 * k].filename = filename

C10_BatchNeverAborted ==
    worker.state = "done" /\ worker.is_running =>
        LET n == Len(worker.file_paths)
            completed == worker.signals[2 * n + 1]
        IN  /\ worker.idx = n
            /\ Len(worker.signals) = 2 * n + 1
            /\ \A k \in 1..n : C10_InListOrder(k)
            /\ completed.signal = "all_completed"
            /\ completed.success_count = C10_Count(worker.signals, TRUE)
            /\ completed.fail_count = C10_Count(worker.signals, FALSE)
            /\ completed.success_count + completed.fail_count = n
            /\ completed.total_records = C10_SumImported(worker.signals)

\* A batch whose first file failed and whose second file was imported with
\* at least one record.
C10_Witness ==
    /\ worker.state = "done"
    /\ worker.is_running
    /\ Len(worker.file_paths) = 2
    /\ ~worker.signals[2].success
    /\ worker.signals[4].success
    /\ worker.signals[4].records >= 1
    /\ worker.signals[5].total_records = worker.signals[4].records

-----------------------------------------------------------------------------
(* C11: cooperative cancellation.  Once stop() has been called the worker   *)
(* begins no further file; the file whose iteration had begun when stop()   *)
(* was called is carried to its end (its rows upserted, its file_imported   *)
(* emitted) before the loop is left; and the store keeps exactly what the   *)
(* files processed so far have upserted: nothing is rolled back.            *)

\* The store after the first k files of the list have been processed.
RECURSIVE C11_StoreAfter(_, _)
C11_StoreAfter(paths, k) ==
    IF k = 0 THEN {}
    ELSE ImportOne(C11_StoreAfter(paths, k - 1), ParsedFiles[paths[k]]).store

C11_Signals(w, name) == {i \in 1..Len(w.signals) : w.signals[i].signal = name}

C11_Retained ==
    worker.state \in {"running", "done"} =>
        /\ ~worker.in_file => store = C11_StoreAfter(worker.file_paths, worker.idx)
        /\ Cardinality(C11_Signals(worker, "file_imported")) = worker.idx
        /\ Cardinality(C11_Signals(worker, "progress_updated")) =
              worker.idx + (IF worker.in_file THEN 1 ELSE 0)
        /\ worker.state = "done" => ~worker.in_file

C11_Step ==
    /\ (worker.state = "running" /\ ~worker.is_running) =>
          /\ ~worker'.is_running
          /\ ~worker.in_file => ~worker'.in_file /\ worker'.idx = worker.idx
          /\ \A r \in store : \E q \in store' :
                q.trade_date = r.trade_date /\ q.stock_code = r.stock_code
    /\ (worker.state = "running" /\ worker.in_file /\ worker'.in_file # worker.in_file) =>
          /\ worker'.state = "running"
          /\ worker'.idx = worker.idx + 1
          /\ store' = C11_StoreAfter(worker.file_paths, worker.idx + 1)
          /\ worker'.signals[Len(worker'.signals)].signal = "file_imported"
    /\ (worker.state = "running" /\ worker'.state = "done") => store' = store

C11_Cancellation == [](C11_Retained) /\ [][C11_Step]_vars

\* stop() came after the first of two files had stored rows: the batch ended
\* with the second file never begun and the rows still stored.
C11_Witness ==
    /\ worker.state = "done"
    /\ ~worker.is_running
    /\ Len(worker.file_paths) = 2
    /\ worker.idx = 1
    /\ worker.success_count = 1
    /\ store # {}
    /\ Cardinality(C11_Signals(worker, "progress_updated")) = 1

-----------------------------------------------------------------------------
(* C13: when neither the file name nor the trade-date column yields a trade *)
(* date, the worker marks the whole file as failed: it appends one          *)
(* import_history row with status failed, record count 0 and the error      *)
(* text, it reports the file with file_imported(filename, 0, False, ...),   *)
(* it leaves stock_daily as it was, and it goes on to the next file.        *)

\* Neither source yields a date: no date in the base name, and no trade-date
\* column or an empty first cell in it.
C13_NoDate(file) ==
    /\ IsNull(extract_date_from_filename(Basename(file.file_path)))
    /\ \/ \A k \in 1..Len(file.columns) : file.columns[k] # "jiaoyi_riqi"
       \/ file.rows # <<>> /\ file.rows[1]["jiaoyi_riqi"].t = "nan"

\* The step in which the worker finishes the file it had begun.
C13_FileStep == worker.state = "running" /\ worker.in_file /\ ~worker'.in_file

C13_Step ==
    (C13_FileStep /\ C13_NoDate(Files[worker.file_paths[worker.idx + 1]])) =>
        LET filename == Basename(Files[worker.file_paths[worker.idx + 1]].file_path)
            entry    == history'[Len(history')]
            signal   == worker'.signals[Len(worker'.signals)]
        IN  /\ store' = store
            /\ Len(history') = Len(history) + 1
            /\ SubSeq(history', 1, Len(history)) = history
            /\ entry.file_name = filename
            /\ entry.status = "failed"
            /\ entry.records_count = 0
            /\ IsNull(entry.trade_date)
            /\ ~IsNull(entry.error_message)
            /\ signal.signal = "file_imported"
            /\ signal.filename = filename
            /\ ~signal.success
            /\ signal.records = 0
            /\ worker'.fail_count = worker.fail_count + 1
            /\ worker'.success_count = worker.success_count
            /\ worker'.total_records = worker.total_records
            /\ worker'.state = "running"
            /\ worker'.idx = worker.idx + 1

-----------------------------------------------------------------------------
(* C14: in every reachable state no stored record has an absent or empty    *)
(* stock_code, and a source row whose stock_code is absent or empty is      *)
(* never persisted by the import path (parse_excel, then insert_batch).     *)

\* Row i of the file has no stock code: there is no stock-code column, or
\* its cell is empty or blank.
C14_CodeMissing(file, i) ==
    \/ \A k \in 1..Len(file.columns) : file.columns[k] # "gupiao_daima"
    \/ LET cell == file.rows[i]["gupiao_daima"]
       IN  cell.t = "nan" \/ (cell.t = "str" /\ Strip(cell.v) = <<>>)

\* The record parse_excel makes of row i of a processed file is in the store.
C14_Persisted(k, i) ==
    LET parsed == ParsedFiles[worker.file_paths[k]]
    IN  /\ parsed.error = "none"
        /\ ~IsNull(parsed.trade_date)
        /\ BoundRow(parsed.df[i], parsed.trade_date) \in store

-----------------------------------------------------------------------------
(* C15: every file the worker processes gets one import-history entry       *)
(* ('success' with the inserted count and the resolved trade date, or       *)
(* 'failed' with count 0 and the error text), a file not started gets none, *)
(* and no import, upsert or delete_by_date modifies or removes an entry.    *)
(* When the INSERT into import_history raises, the except branch reports    *)
(* the file failed and tries once more; if that raises too the file has no  *)
(* entry.  So: at most one entry per processed file, the one matching the   *)
(* file_imported signal, and none only for a file reported failed.          *)

C15_IsPrefix(a, b) == Len(a) <= Len(b) /\ SubSeq(b, 1, Len(a)) = a

\* The entry that goes with a file_imported signal.
C15_Entry(file, sig) ==
    IF sig.success
    THEN [file_name |-> sig.filename,
          trade_date |-> ParsedFiles[file].trade_date,
          records_count |-> sig.records, status |-> "success",
          error_message |-> NULL]
    ELSE [file_name |-> sig.filename, trade_date |-> NULL,
          records_count |-> 0, status |-> "failed",
          error_message |-> Some(sig.message.text)]

\* This step finishes the processing of a file.
C15_FileStep ==
    /\ worker.state = "running"
    /\ worker'.state = "running"
    /\ worker'.idx = worker.idx + 1

C15_Step ==
    /\ C15_IsPrefix(history, history')
    /\ IF C15_FileStep
       THEN LET sig == worker'.signals[Len(worker'.signals)]
                file == worker.file_paths[worker'.idx]
            IN  \/ history' = Append(history, C15_Entry(file, sig))
                \/ history' = history /\ ~sig.success
       ELSE history' = history

-----------------------------------------------------------------------------
(* C12: at most one batch import runs at a time; a start request made while *)
(* one is in flight creates and starts no second BatchImportWorker.         *)

\* The dialogs whose worker thread is running.
C12_Running == {d \in DOMAIN dialogs : isRunning(dialogs[d].worker)}

C12_AtMostOneImport == Cardinality(C12_Running) <= 1

-----------------------------------------------------------------------------
(* C16: for every text x that ends in the hundred-million marker,           *)
(* _parse_numeric(x) is 10000 times _parse_numeric of x without the marker, *)
(* thousands separators and percent signs in the remainder included, and    *)
(* absent when the remainder normalizes to absent.                          *)

\* x without its last character.
C16_Prefix(text) == SubSeq(text, 1, Len(text) - 1)

\* r is scale times v, or both are absent.
C16_IsTimes(r, v, scale) ==
    IF IsNull(v) THEN IsNull(r)
    ELSE ~IsNull(r) /\ Val(r) % scale = 0 /\ Val(r) \div scale = Val(v)

C16_YiScalesByTenThousand ==
    (/\ last.op = "parse_numeric"
     /\ last.value.t = "str"
     /\ last.value.v # <<>>
     /\ last.value.v[Len(last.value.v)] = "Y")
    => C16_IsTimes(last.ret, parse_numeric(Str(C16_Prefix(last.value.v))), 10000)

-----------------------------------------------------------------------------
(* C17: for every text that ends in the ten-thousand marker and whose       *)
(* prefix is neither empty nor a bare dash, _parse_numeric returns the      *)
(* value of the prefix unscaled, the prefix being read after its thousands  *)
(* separators and percent signs are stripped.                               *)

\* The prefix of x with thousands separators and percent signs stripped.
C17_Numeral(text) == Strip(Remove(Remove(C16_Prefix(text), ","), "%"))

C17_WanKeepsPrefixValue ==
    (/\ last.op = "parse_numeric"
     /\ last.value.t = "str"
     /\ last.value.v # <<>>
     /\ last.value.v[Len(last.value.v)] = "W"
     /\ C17_Numeral(last.value.v) \notin {<<>>, <<"-">>})
    => last.ret = FloatOrNone(C17_Numeral(last.value.v), 1)

-----------------------------------------------------------------------------
(* C18: _parse_numeric returns absent, never 0, for None, for the empty     *)
(* text, for "-", and for every text whose remainder without unit markers,  *)
(* thousands separators and percent signs is empty or a bare dash.          *)

C18_Remainder(text) ==
    Strip(Remove(Remove(Remove(Remove(text, "Y"), "W"), ","), "%"))

C18_NullLike(value) ==
    \/ value.t = "nan"
    \/ value.t = "str" /\ C18_Remainder(value.v) \in {<<>>, <<"-">>}

C18_AbsentForNullLike ==
    (last.op = "parse_numeric" /\ C18_NullLike(last.value)) => last.ret = NULL

\* "-" with the hundred-million marker has been parsed.
C18_Witness ==
    /\ last.op = "parse_numeric"
    /\ last.value.t = "str"
    /\ last.value.v = <<"-", "Y">>
    /\ last.ret = NULL

-----------------------------------------------------------------------------
(* C19: when two labels of a frame map to the same canonical column, the    *)
(* column takes the values of the label that comes first in the frame's     *)
(* column order and the later label never overwrites it; a label without a  *)
(* mapping entry is listed as unmapped and gives no column and no error; a  *)
(* canonical column none of whose labels is in the frame is not created.    *)

C19_Mapped(df, i) == df.columns[i] \in DOMAIN COLUMN_MAPPING

\* Column i is the first of the frame that maps to its canonical column.
C19_First(df, i) ==
    /\ C19_Mapped(df, i)
    /\ \A j \in 1..(i - 1) :
          C19_Mapped(df, j) => COLUMN_MAPPING[df.columns[j]] # COLUMN_MAPPING[df.columns[i]]

C19_FirstLabelWins ==
    last.op = "normalize_data" =>
        LET df == last.df
            any == \E i \in 1..Len(df.columns) : C19_Mapped(df, i)
        IN  /\ ~last.raises
            /\ Len(last.ret) = IF any THEN Len(df.rows) ELSE 0
            /\ \A l \in FrameLabels :
                  (\E k \in 1..Len(last.unmapped) : last.unmapped[k] = l)
                    <=> /\ \E i \in 1..Len(df.columns) : df.columns[i] = l
                        /\ l \notin DOMAIN COLUMN_MAPPING
            /\ \A r \in 1..Len(last.ret) :
                  /\ DOMAIN last.ret[r] =
                        {COLUMN_MAPPING[df.columns[i]] :
                            i \in {k \in 1..Len(df.columns) : C19_Mapped(df, k)}}
                  /\ \A i \in 1..Len(df.columns) :
                        C19_First(df, i) =>
                            last.ret[r][COLUMN_MAPPING[df.columns[i]]]
                              = CleanCell(COLUMN_MAPPING[df.columns[i]],
                                          df.rows[r][df.columns[i]])

\* jinri_chengjiaoe ("1.2Y") comes before chengjiaoe (1.0), an unmapped label
\* between them: the column holds 12000.0 and is the only one.
C19_Witness ==
    /\ last.op = "normalize_data"
    /\ last.df.columns = <<"jinri_chengjiaoe", "beizhu", "chengjiaoe">>
    /\ last.unmapped = <<"beizhu">>
    /\ DOMAIN last.ret[1] = {"auction_today_volume"}
    /\ last.ret[1].auction_today_volume = Some(120000)

-----------------------------------------------------------------------------
(* C20: the stock_code of a raw value that is purely numeric, with or       *)
(* without a trailing ".0", given as a number or as a text, is its digits   *)
(* left-padded with zeros to 6 characters; every other text is returned     *)
(* unchanged; in both cases a value is returned (nothing is raised).        *)

\* The digits of a purely numeric raw value, or <<>> when it is not one.
C20_Digits(x) ==
    IF x.t = "num"
    THEN IF x.n >= 0 /\ x.n % 10 = 0 THEN TextOfNat(x.n \div 10) ELSE <<>>
    ELSE IF x.t # "str" THEN <<>>
    ELSE IF IsDigit(x.v) THEN x.v
    ELSE IF EndsWith(x.v, <<".", "0">>) /\ IsDigit(SubSeq(x.v, 1, Len(x.v) - 2))
    THEN SubSeq(x.v, 1, Len(x.v) - 2)
    ELSE <<>>

C20_StockCodeNormalised ==
    last.op = "clean_stock_code" =>
        /\ ~last.raises
        /\ C20_Digits(last.x) # <<>> => last.ret = Some(ZFill(C20_Digits(last.x), 6))
        /\ (last.x.t = "str" /\ C20_Digits(last.x) = <<>>) => last.ret = Some(last.x.v)

-----------------------------------------------------------------------------
(* C21: get_all_sectors returns exactly the tokens got by splitting every   *)
(* stored non-empty sector text on the delimiter and trimming blanks, each  *)
(* once, in sorted order.                                                   *)

\* The pieces of a text between delimiters (or the ends of the text).
C21_Tokens(text) ==
    {SubSeq(text, i, j) :
        <<i, j>> \in {p \in (1..(Len(text) + 1)) \X (0..Len(text)) :
                        /\ p[1] <= p[2] + 1
                        /\ p[1] = 1 \/ text[p[1] - 1] = "~"
                        /\ p[2] = Len(text) \/ text[p[2] + 1] = "~"
                        /\ \A k \in p[1]..p[2] : text[k] # "~"}}

C21_SectorTokens ==
    UNION {{Strip(t) : t \in C21_Tokens(Val(r.sector))} :
             r \in {q \in store : ~IsNull(q.sector) /\ Val(q.sector) # <<>>}}

C21_DistinctSectors ==
    last.op = "get_all_sectors" =>
        /\ {last.ret[i] : i \in 1..Len(last.ret)} = C21_SectorTokens
        /\ \A i \in 1..(Len(last.ret) - 1) : TextLess(last.ret[i], last.ret[i + 1])

\* "JR" and "JR~ DC" are both stored: the answer is DC, JR.
C21_Witness ==
    /\ last.op = "get_all_sectors"
    /\ \E r \in store : r.sector = Some(JinRong)
    /\ \E r \in store : r.sector = Some(JinRongDiChan)
    /\ last.ret = <<DiChan, JinRong>>

-----------------------------------------------------------------------------
(* C22: insert_batch commits once, after its loop.  While the batch runs    *)
(* the committed table does not change; a read made through the same        *)
(* connection sees the records executed so far and not the others; the      *)
(* commit makes the whole batch durable; an interruption before the commit  *)
(* leaves the committed table as it was when the batch began.               *)

\* As first stated: every upsert is committed by itself, so the records
\* upserted before an interruption stay stored.
C22_PerRecordCommit ==
    /\ last.op = "batch_running" => store = last.view
    /\ last.op = "batch_interrupted" =>
          \A i \in 1..last.done :
              Written(last.data, last.trade_date, i) =>
                  KeyRows(store, last.trade_date, last.data[i].stock_code) # {}

\* The view of the connection: the committed table and the records executed
\* so far.
C22_ViewIsPrefix ==
    last.op = "batch_running" =>
        last.view = insert_batch(store, SubSeq(last.data, 1, last.done), last.trade_date)[1]

C22_Step ==
    last.op = "batch_running" =>
        /\ store' # store =>
              /\ last'.op = "insert_batch"
              /\ last.done = Len(last.data)
              /\ store' = last.view
        /\ last'.op = "insert_batch" => store' = last.view
        /\ last'.op = "batch_interrupted" => store' = store
        /\ (last'.op = "batch_running" /\ last'.read # last.read) =>
              last'.read = Some(query_by_date(last.view, last.trade_date, NULL, NULL, NULL))

C22_CommitAfterLoop == [](C22_ViewIsPrefix) /\ [][C22_Step]_vars

\* Into an empty table, the first of two records has been executed: a read
\* through the connection returns it, and nothing is committed.
C22_Witness ==
    /\ last.op = "batch_running"
    /\ Len(last.data) = 2
    /\ last.done = 1
    /\ store = {}
    /\ ~IsNull(last.read)
    /\ Len(Val(last.read)) = 1

-----------------------------------------------------------------------------
\* C23 (as stated): the progress event of a file is emitted after that file
\* has been processed, so the file_imported signal of the file precedes it.
C23_Positions(name) == {i \in 1..Len(worker.signals) : worker.signals[i].signal = name}

C23_ImportedBefore(i) == Cardinality({j \in C23_Positions("file_imported") : j < i})

C23_ProgressAfterProcessing ==
    worker.state # "idle" =>
        \A i \in C23_Positions("progress_updated") :
            C23_ImportedBefore(i) >= worker.signals[i].current

\* The k-th progress event of a run is (k, total, basename of the k-th path),
\* and exactly k - 1 files have been signalled as imported before it.
C23_ProgressInListOrder ==
    worker.state # "idle" =>
        \A i \in C23_Positions("progress_updated") :
            LET k == Cardinality({j \in C23_Positions("progress_updated") : j <= i})
            IN  /\ k <= Len(worker.file_paths)
                /\ worker.signals[i].current = k
                /\ worker.signals[i].total = Len(worker.file_paths)
                /\ worker.signals[i].filename
                        = Basename(Files[worker.file_paths[k]].file_path)
                /\ C23_ImportedBefore(i) = k - 1

\* The step that emits a progress event stores nothing and records nothing:
\* the file it names is parsed, upserted and recorded by the step after it.
C23_Step ==
    (/\ worker.state = "running"
     /\ worker'.state = "running"
     /\ Len(worker'.signals) = Len(worker.signals) + 1
     /\ worker'.signals[Len(worker'.signals)].signal = "progress_updated")
    => /\ store' = store
       /\ history' = history
       /\ ~worker.in_file /\ worker'.in_file
       /\ worker'.idx = worker.idx
       /\ worker'.signals[Len(worker'.signals)].current = worker.idx + 1

\* C23: for each file of a batch the progress event (index, total, filename)
\* is emitted before that file is parsed, upserted and recorded, with index
\* running 1..total in list order and at most one progress event per file.
C23_ProgressBeforeProcessing == [](C23_ProgressInListOrder) /\ [][C23_Step]_vars

\* A run of two files has finished uncancelled: two progress events, each
\* followed by the file_imported of its file.
C23_Witness ==
    /\ worker.state = "done"
    /\ worker.is_running
    /\ Len(worker.file_paths) = 2
    /\ Cardinality(C23_Positions("progress_updated")) = 2
    /\ worker.signals[1].signal = "progress_updated"
    /\ worker.signals[2].signal = "file_imported"
    /\ worker.signals[3].signal = "progress_updated"
    /\ worker.signals[3].current = 2

-----------------------------------------------------------------------------
\* all_completed and the files whose iteration was begun.
C24_Completed == {i \in 1..Len(worker.signals) : worker.signals[i].signal = "all_completed"}

C24_Started == {i \in 1..Len(worker.signals) : worker.signals[i].signal = "progress_updated"}

\* While run() is in its loop nothing has been reported as completed; when it
\* has returned, all_completed is the last signal and the only one of its
\* kind, and its two counts add up to the number of files begun: the whole
\* list when stop() was not called, no more than the list when it was.
C24_CompletedOnce ==
    /\ worker.state = "running" => C24_Completed = {}
    /\ worker.state = "done" =>
          LET n == Len(worker.signals)
              sig == worker.signals[n]
          IN  /\ n >= 1
              /\ C24_Completed = {n}
              /\ sig.success_count + sig.fail_count = Cardinality(C24_Started)
              /\ Cardinality(C24_Started) = worker.idx
              /\ worker.is_running => worker.idx = Len(worker.file_paths)
              /\ worker.idx <= Len(worker.file_paths)

\* Idle, then Running, then Completed or Cancelled, and nothing after.
C24_Step ==
    /\ worker.state = "idle" => worker'.state \in {"idle", "running"}
    /\ worker.state = "running" => worker'.state \in {"running", "done"}
    /\ worker.state = "done" => worker' = worker

\* C24: a batch run goes Idle, Running, then Completed or Cancelled: for every
\* file list and every timing of stop() run() terminates, emits all_completed
\* exactly once, as its last signal, also when cancelled, and the emitted
\* success_count + fail_count is the number of files whose processing was
\* started (the list length when not cancelled, at most it when cancelled).
C24_RunTerminates ==
    /\ [](C24_CompletedOnce)
    /\ [][C24_Step]_vars
    /\ (worker.state = "running" ~> worker.state = "done")

\* A run of two files was stopped during its first file: one file begun,
\* one counted, all_completed emitted.
C24_Witness ==
    /\ worker.state = "done"
    /\ ~worker.is_running
    /\ Len(worker.file_paths) = 2
    /\ worker.idx = 1
    /\ Len(worker.signals) = 3
    /\ worker.signals[3].signal = "all_completed"
    /\ worker.signals[3].success_count + worker.signals[3].fail_count = 1

-----------------------------------------------------------------------------
\* The rows of the previous partition, as the query read it, for one code.
C25_PrevRead(code) ==
    {last.prev_df[k] : k \in {j \in 1..Len(last.prev_df) : last.prev_df[j].stock_code = code}}

\* One comparison column of a returned row: absent, or the quotient of the
\* row's value by the value of the same code in the previous partition as read.
C25_RatioFromRead(ratio, today, column) ==
    \/ IsNull(ratio)
    \/ /\ ~IsNull(last.prev_date)
       /\ \E p \in C25_PrevRead(today.stock_code) :
             /\ ~IsNull(today[column]) /\ ~IsNull(p[column])
             /\ Val(p[column]) # 0
             /\ Val(ratio) = [num |-> Val(today[column]), den |-> Val(p[column])]

\* C25: a comparison query with a write of another thread between its reads
\* does not fail: it returns the today-rows of its first read, each with
\* ratios that are absent or computed from the previous partition as it was
\* read, whatever the table holds by then.
C25_StaleNotFatal ==
    last.op = "comparison_done" =>
       /\ Len(last.ret) = Len(last.today_df)
       /\ \A i \in 1..Len(last.ret) :
             /\ \A c \in DOMAIN last.today_df[i] : last.ret[i][c] = last.today_df[i][c]
             /\ DOMAIN last.ret[i] = DOMAIN last.today_df[i]
                    \cup {"main_net_prev_ratio", "volume_prev_ratio"}
             /\ C25_RatioFromRead(last.ret[i].main_net_prev_ratio, last.today_df[i],
                                  "main_net_amount")
             /\ C25_RatioFromRead(last.ret[i].volume_prev_ratio, last.today_df[i],
                                  "auction_today_volume")

\* A write landed between the reads: the rows returned are no longer the
\* rows the table holds for the date, and a ratio was computed.
C25_Witness ==
    /\ last.op = "comparison_done"
    /\ last.writes = 1
    /\ Len(last.ret) >= 1
    /\ last.today_df # query_by_date(store, last.trade_date, last.stock_code, NULL, NULL)
    /\ \E i \in 1..Len(last.ret) : ~IsNull(last.ret[i].main_net_prev_ratio)

-----------------------------------------------------------------------------
\* Four digits, a, two digits, b, two digits at position i of the name.
C26_Shaped(name, i, a, b) ==
    /\ i + 9 <= Len(name)
    /\ \A k \in {0, 1, 2, 3, 5, 6, 8, 9} : name[i + k] \in Digits
    /\ name[i + 4] = a
    /\ name[i + 7] = b

C26_Rendered(name, i) ==
    <<name[i], name[i + 1], name[i + 2], name[i + 3], "-",
      name[i + 5], name[i + 6], "-", name[i + 8], name[i + 9]>>

C26_Leftmost(name, at) ==
    IF at = {} THEN NULL
    ELSE Some(C26_Rendered(name, CHOOSE i \in at : \A j \in at : i <= j))

C26_Dashed(name) == {i \in 1..Len(name) : C26_Shaped(name, i, "-", "-")}

C26_Slashed(name) == {i \in 1..Len(name) : C26_Shaped(name, i, "/", "/")}

C26_Separated(name) ==
    {i \in 1..Len(name) : \E a, b \in {"/", "\\"} : C26_Shaped(name, i, a, b)}

\* C26 (as stated): the first substring shaped YYYY-MM-DD or YYYY/MM/DD is
\* returned, whichever shape it has, and None when there is none.
C26_FirstOfBothShapes ==
    last.op = "extract_date_from_filename" =>
        last.ret = C26_Leftmost(last.filename,
                                C26_Dashed(last.filename) \cup C26_Slashed(last.filename))

\* C26: extract_date_from_filename returns the first substring shaped
\* YYYY-MM-DD when the name has one, wherever it stands; otherwise the first
\* substring of four, two and two digits separated by slashes or backslashes;
\* rendered as YYYY-MM-DD with no calendar check; None when there is neither.
C26_DashedShapeFirst ==
    last.op = "extract_date_from_filename" =>
        last.ret = IF C26_Dashed(last.filename) # {}
                   THEN C26_Leftmost(last.filename, C26_Dashed(last.filename))
                   ELSE C26_Leftmost(last.filename, C26_Separated(last.filename))

\* A name that begins with 2024/08/09 and goes on with 2025-13-45: the
\* second is returned, unchanged.
C26_Witness ==
    /\ last.op = "extract_date_from_filename"
    /\ C26_Shaped(last.filename, 1, "/", "/")
    /\ C26_Dashed(last.filename) = {11}
    /\ last.ret = Some(<<"2", "0", "2", "5", "-", "1", "3", "-", "4", "5">>)

-----------------------------------------------------------------------------
\* The rows of the date the statistics were asked for.
C27_Rows == {r \in store : r.trade_date = last.trade_date}

C27_Rated == {r \in C27_Rows : ~IsNull(r.turnover_rate)}

RECURSIVE C27_Sum(_)
C27_Sum(rows) ==
    IF rows = {} THEN 0
    ELSE LET r == CHOOSE x \in rows : TRUE
         IN  Val(r.turnover_rate) + C27_Sum(rows \ {r})

\* C27: get_statistics(date) counts the rows of that date, those with
\* main_net_amount present and above 0, those with auction_today_volume and
\* the stored auction_yesterday_volume both present and today's strictly
\* greater, and averages turnover_rate over the rows where it is present,
\* to the hundredth.
C27_Statistics ==
    last.op = "get_statistics" =>
       /\ last.ret.total_count = Cardinality(C27_Rows)
       /\ last.ret.positive_main_count =
             Cardinality({r \in C27_Rows : r.main_net_amount # NULL
                                            /\ Val(r.main_net_amount) >= 1})
       /\ last.ret.positive_volume_count =
             Cardinality(C27_Rows)
               - Cardinality({r \in C27_Rows : \/ r.auction_today_volume = NULL
                                                \/ r.auction_yesterday_volume = NULL})
               - Cardinality({r \in C27_Rows :
                                /\ r.auction_today_volume # NULL
                                /\ r.auction_yesterday_volume # NULL
                                /\ Val(r.auction_today_volume)
                                      <= Val(r.auction_yesterday_volume)})
       /\ C27_Rated # {} =>
             LET n == Cardinality(C27_Rated)
                 d == last.ret.avg_turnover * n - 10 * C27_Sum(C27_Rated)
             IN  2 * d <= n /\ 2 * (0 - d) <= n

\* Two rows for the date, one of them without turnover_rate and with equal
\* volumes, the other with a volume above yesterday's; an earlier date is
\* stored.  The average is that of the one rated row.
C27_Witness ==
    /\ last.op = "get_statistics"
    /\ Cardinality(C27_Rows) = 2
    /\ Cardinality(C27_Rated) = 1
    /\ \E r \in store : TextLess(Val(r.trade_date), Val(last.trade_date))
    /\ \E r \in C27_Rows : /\ ~IsNull(r.auction_today_volume)
                            /\ r.auction_today_volume = r.auction_yesterday_volume
    /\ last.ret.positive_volume_count = 1
    /\ last.ret.positive_main_count = 1
    /\ last.ret.avg_turnover = 150

-----------------------------------------------------------------------------
\* The stored dates below the date of the call, and the rows stored for the
\* latest of them under one code.
C28_Earlier == {r \in store : TextLess(Val(r.trade_date), Val(last.trade_date))}

C28_Previous(code) ==
    {r \in C28_Earlier : /\ r.stock_code = code
                         /\ \A q \in C28_Earlier : TextLeq(Val(q.trade_date), Val(r.trade_date))}

\* The quotient the code forms from two stored values.
C28_Quotient(ratio, today, prev) ==
    IF today # NULL /\ prev # NULL /\ Val(prev) # 0
    THEN ratio = Some([num |-> Val(today), den |-> Val(prev)])
    ELSE ratio = NULL

\* C28: in query_by_date_with_comparison(D, code, sector, limit) the filters
\* restrict today's rows only: for every returned row the ratios are formed
\* against the record the previous date holds for the same stock_code
\* whenever there is one, whether or not that record matches the sector
\* filter or lies within the limit.
C28_FiltersTodayOnly ==
    last.op = "query_by_date_with_comparison" =>
       /\ Len(last.ret) = Len(last.today_df)
       /\ \A i \in 1..Len(last.ret) :
             /\ last.ret[i].stock_code = last.today_df[i].stock_code
             /\ \A p \in C28_Previous(last.ret[i].stock_code) :
                   /\ C28_Quotient(last.ret[i].main_net_prev_ratio,
                                   last.ret[i].main_net_amount, p.main_net_amount)
                   /\ C28_Quotient(last.ret[i].volume_prev_ratio,
                                   last.ret[i].auction_today_volume, p.auction_today_volume)

\* A call with a sector filter returned a row with a ratio formed against a
\* previous record that the filter would have left out.
C28_Witness ==
    /\ last.op = "query_by_date_with_comparison"
    /\ last.sector = Some(DiChan)
    /\ Len(last.ret) = 1
    /\ last.ret[1].main_net_prev_ratio # NULL
    /\ \E p \in C28_Previous(last.ret[1].stock_code) :
          /\ p.sector # NULL
          /\ ~Contains(Val(p.sector), DiChan)

-----------------------------------------------------------------------------
\* The records of the batch whose INSERT was executed, by position.
C29_NonFailing ==
    {i \in 1..Len(last.data) : ~ExecuteFails(last.data[i], last.trade_date)}

C29_Codes == {last.data[i].stock_code : i \in C29_NonFailing}

\* The last non-failing record of the batch for a code.
C29_LastFor(code) ==
    last.data[CHOOSE i \in C29_NonFailing :
                 /\ last.data[i].stock_code = code
                 /\ \A j \in C29_NonFailing : last.data[j].stock_code = code => j <= i]

C29_StoredFromBatch ==
    {r \in store : r.trade_date = last.trade_date /\ r.stock_code \in C29_Codes}

\* C29: insert_batch(records, d) stores every non-failing record under d,
\* whatever trade_date the record carries, and counts every executed upsert:
\* the rows it leaves stored for d are one per distinct stock_code of the
\* non-failing records, holding the last such record in batch order, so
\* that inserted is at least their number.
C29_InsertedCountsUpserts ==
    (last.op = "insert_batch" /\ last.trade_date # NULL) =>
       /\ last.inserted = Cardinality(C29_NonFailing)
       /\ Cardinality(C29_StoredFromBatch) = Cardinality(C29_Codes)
       /\ last.inserted >= Cardinality(C29_StoredFromBatch)
       /\ \A code \in C29_Codes :
             \E r \in C29_StoredFromBatch :
                /\ r.stock_code = code
                /\ r.trade_date = last.trade_date
                /\ \A c \in DataColumns \ {"stock_code"} : r[c] = Get(C29_LastFor(code), c)

\* Two records of one stock_code, the second carrying another trade_date:
\* two upserts counted, one row stored, under d.
C29_Witness ==
    /\ last.op = "insert_batch"
    /\ Len(last.data) = 2
    /\ last.inserted = 2
    /\ Cardinality(C29_Codes) = 1
    /\ "trade_date" \in DOMAIN last.data[2]
    /\ last.data[2].trade_date # last.trade_date
    /\ Cardinality(C29_StoredFromBatch) = 1
    /\ \A r \in C29_StoredFromBatch : r.stock_name = Some(<<"b">>)

-----------------------------------------------------------------------------
\* C30: the import dialog never closes while its import worker is running:
\* a dialog that is no longer shown has no running worker, a dialog leaves
\* the screen with a running worker behind it in no step, and the worker's
\* thread ends only by run() returning.
C30_NeverClosedWhileRunning ==
    \A d \in DOMAIN dialogs : ~dialogs[d].visible => ~isRunning(dialogs[d].worker)

====
